---- MODULE Spec2Model ----
(***************************************************************************)
(* Model of the Netatmo API client of mqtt4netatmo (lib/netatmo.js):       *)
(* the constructor, the token store (connect, checkAndSetAccesToken,       *)
(* authenticateByRefreshToken, authenticateByClientCredentials, setToken), *)
(* the request executor with its expired-token retry, the data accessors,  *)
(* processMeasure, processStation, processAircare, pollData and            *)
(* startPolling.                                                           *)
(*                                                                         *)
(* Every async function is a frame on the call stack of a flow; a frame    *)
(* is suspended at an await.  A step runs the synchronous code between two *)
(* suspension points.  The only external suspension point is axios().      *)
(***************************************************************************)
EXTENDS Integers, Sequences, FiniteSets, TLC

VARIABLES
  ctor,                \* outcome of `new NetatmoClient(...)` and its arguments
  accessToken,         \* this.accessToken
  refreshToken,        \* this.refreshToken
  expiresInTimestamp,  \* this.expiresInTimestamp, in clock ticks
  intervalId,          \* this.intervalId
  now,                 \* Date.now(), in clock ticks
  stack,               \* per flow: the suspended async frames, innermost last
  comp,                \* per flow: the completion being delivered to the innermost frame
  log,                 \* per flow: connect invocations and HTTP calls of the current call
  op,                  \* per flow: the top-level call in progress or last finished
  status,              \* per flow: "idle", "running" or "done"
  result,              \* per flow: how the last top-level call settled
  measure,             \* the raw measurement handed to processMeasure
  data,                \* the record processMeasure returned
  device,              \* the station or air-quality device handed to processStation/processAircare
  frames,              \* what eventEmitter.emit('frame', ...) was called with, in order
  warnings,            \* what logger.warn was called with, in order
  registered,          \* what setInterval and process.on were called with
  response,            \* the rejection axios delivered last
  process              \* the Node process: signals, listeners of MqttClient, timer, exit

vars == <<ctor, accessToken, refreshToken, expiresInTimestamp, intervalId, now,
          stack, comp, log, op, status, result, measure, data,
          device, frames, warnings, registered, response, process>>

clientVars == <<accessToken, refreshToken, expiresInTimestamp>>
flowVars == <<stack, comp, log, op, status, result>>
measureVars == <<measure, data>>
emitVars == <<frames, warnings>>
pollVars == <<device, emitVars, registered, response, process>>

-----------------------------------------------------------------------------
(* Bounds *)

MaxNow == 3            \* the clock stops after this many ticks
TicksPerSecond == 2    \* sub-second resolution of the clock
MaxDepth == 7          \* deepest call stack the server's answers may force
MaxKeys == 2           \* most keys in a raw measurement
MaxModules == 2        \* most modules of a station
MaxDevices == 2        \* most devices in an answer of the API
MaxFrames == 2         \* the timer stops firing once this many frames were emitted

-----------------------------------------------------------------------------
(* JavaScript values *)

NULL == "null"                       \* null or undefined
Truthy(s) == s # NULL /\ s # ""      \* truthiness of a string, null or undefined

PATH_AUTH == "/oauth2/token"
PATH_API == "/api/getstationsdata"   \* any path other than the token endpoint
PATH_HOMESDATA == "/api/homesdata"
PATH_HOMESTATUS == "/api/homestatus"
PATH_MEASURE == "/api/getmeasure"
PATH_HOMECOACH == "/api/gethomecoachsdata"
Paths == {PATH_AUTH, PATH_API}

AllFlows == {"main"}

\* Date.now() / 1000 compared with a timestamp: both sides in ticks
InFuture(timestamp, t) == timestamp > t
\* Math.floor(Date.now() / 1000), in ticks
FloorSeconds(t) == (t \div TicksPerSecond) * TicksPerSecond

-----------------------------------------------------------------------------
(* HTTP bodies and error responses *)

NoBody == [tag |-> "undefined", access_token |-> NULL, refresh_token |-> NULL,
           has_expires_in |-> FALSE, expires_in |-> 0, devices |-> <<>>]
\* an answer of the API; devices is body.devices
DataBody == [tag |-> "data", access_token |-> NULL, refresh_token |-> NULL,
             has_expires_in |-> FALSE, expires_in |-> 0, devices |-> <<>>]

\* what the token endpoint may answer with status 200
AuthBodies ==
  { b \in [tag : {"auth"}, access_token : {NULL, "", "tokB"},
           refresh_token : {NULL, "", "refB"},
           has_expires_in : BOOLEAN, expires_in : {-1, 0, 1}, devices : {<<>>}] :
      ~b.has_expires_in => b.expires_in = 0 }

\* a rejected axios call: status 0 stands for "no e.response"
ErrorResponses ==
  { r \in [status : {0, 400, 401, 403, 500}, hasData : BOOLEAN,
           error_description : BOOLEAN, error : {"absent", "string", "object"},
           code : {0, 1, 3}, message : BOOLEAN] :
      /\ r.status = 0 => ~r.hasData
      /\ ~r.hasData => (~r.error_description /\ r.error = "absent")
      /\ r.error # "object" => (r.code = 0 /\ ~r.message) }

\* setInterval(pollData, PollDelay) and the signals of process.on
PollDelay == 60000
PollSignals == {"SIGTERM", "SIGINT"}
NoRegistration == [delay |-> 0, signals |-> {}]

\* the Node process before MqttClient.connect(): no listener, no signal
NoProcess ==
  [exited |-> FALSE, mqtt |-> "none", delivered |-> {}, cleared |-> FALSE,
   server |-> "any"]

\* no rejection delivered yet
NoResponse ==
  [seen |-> FALSE,
   r |-> [status |-> 0, hasData |-> FALSE, error_description |-> FALSE,
          error |-> "absent", code |-> 0, message |-> FALSE]]

NoComp == [kind |-> "none", err |-> "", msg |-> "", status |-> 0, body |-> NoBody]

NoData == [grant_type |-> "none", refresh_token |-> NULL]

Frame(fn, pc, path, isRetry, d) ==
  [fn |-> fn, pc |-> pc, path |-> path, isRetry |-> isRetry, data |-> d]

HttpEvent(path, d, bearer) ==
  [ev |-> "http", path |-> path, grant_type |-> d.grant_type,
   refresh_token |-> d.refresh_token, bearer |-> bearer, devices |-> <<>>]
ConnectEvent ==
  [ev |-> "connect", path |-> "", grant_type |-> "none",
   refresh_token |-> NULL, bearer |-> NULL, devices |-> <<>>]
\* how axios settled: kind is "ok", "expired" (the expired-token signature) or "error"
ResponseEvent(kind, path) ==
  [ev |-> kind, path |-> path, grant_type |-> "none",
   refresh_token |-> NULL, bearer |-> NULL, devices |-> <<>>]
\* axios resolved with body
OkEvent(path, body) == [ResponseEvent("ok", path) EXCEPT !.devices = body.devices]
Logged(m, e) == [m EXCEPT !.log = Append(@, e)]

-----------------------------------------------------------------------------
(* The machine of one flow: the client's token state, the flow's stack and *)
(* what the flow emitted and logged                                        *)

Machine(f) ==
  [stack |-> stack[f], comp |-> comp[f], log |-> log[f],
   accessToken |-> accessToken, refreshToken |-> refreshToken,
   expiresInTimestamp |-> expiresInTimestamp,
   frames |-> frames, warnings |-> warnings]

Apply(f, m) ==
  /\ accessToken' = m.accessToken
  /\ refreshToken' = m.refreshToken
  /\ expiresInTimestamp' = m.expiresInTimestamp
  /\ stack' = [stack EXCEPT ![f] = m.stack]
  /\ comp' = [comp EXCEPT ![f] = m.comp]
  /\ log' = [log EXCEPT ![f] = m.log]
  /\ frames' = m.frames
  /\ warnings' = m.warnings

Push(m, frame) == [m EXCEPT !.stack = Append(@, frame)]
Pop(m) == [m EXCEPT !.stack = SubSeq(@, 1, Len(@) - 1)]
Top(m) == m.stack[Len(m.stack)]
SetPc(m, pc) == [m EXCEPT !.stack[Len(m.stack)].pc = pc]

Return(m, body) ==
  [m EXCEPT !.comp = [kind |-> "return", err |-> "", msg |-> "", status |-> 0,
                      body |-> body]]
Throw(m, err, msg, st) ==
  [m EXCEPT !.comp = [kind |-> "throw", err |-> err, msg |-> msg, status |-> st,
                      body |-> NoBody]]
Awaiting(m) == [m EXCEPT !.comp = NoComp]

-----------------------------------------------------------------------------
(* NetatmoClient: the synchronous code of each method up to its first await *)

\* request without the access-token precondition
request_NoTokenCheck(m, path, d, isRetry) ==
  LET bearer == IF path # PATH_AUTH THEN m.accessToken ELSE NULL
      issued == [m EXCEPT !.log = Append(@, HttpEvent(path, d, bearer))]
  IN Awaiting(Push(issued, Frame("request", "axios", path, isRetry, d)))

\* request(method, path, params, data, isRetry), up to `await axios(config)`
request(m, path, d, isRetry) ==
  IF path # PATH_AUTH /\ ~Truthy(m.accessToken)
  THEN Throw(m, "MissingAccessToken", "", 0)
  ELSE LET bearer == IF path # PATH_AUTH THEN m.accessToken ELSE NULL
           issued == [m EXCEPT !.log = Append(@, HttpEvent(path, d, bearer))]
       IN Awaiting(Push(issued, Frame("request", "axios", path, isRetry, d)))

\* the truthiness test of setToken on the authentication result
ValidAuthentication(body) ==
  /\ Truthy(body.access_token)
  /\ Truthy(body.refresh_token)
  /\ body.has_expires_in /\ body.expires_in # 0

\* setToken storing the refresh token and the expiry but not the access token
setToken_KeepsAccessToken(m, body, t) ==
  IF ~ValidAuthentication(body)
  THEN Throw(m, "InvalidToken", "", 0)
  ELSE Return([m EXCEPT !.refreshToken = body.refresh_token,
                        !.expiresInTimestamp =
                            FloorSeconds(t) + body.expires_in * TicksPerSecond],
              NoBody)

\* setToken(netatmoAuthentication), called by the frame on top of the stack
setToken(m, body, t) ==
  IF ~ValidAuthentication(body)
  THEN Throw(m, "InvalidToken", "", 0)
  ELSE Return([m EXCEPT !.accessToken = body.access_token,
                        !.refreshToken = body.refresh_token,
                        !.expiresInTimestamp =
                            FloorSeconds(t) + body.expires_in * TicksPerSecond],
              NoBody)

\* authenticateByRefreshToken storing its argument before testing it
authenticateByRefreshToken_StoresFirst(m, rt) ==
  IF ~Truthy(rt)
  THEN Throw([m EXCEPT !.refreshToken = rt], "MissingRefreshToken", "", 0)
  ELSE request(Push([m EXCEPT !.refreshToken = rt],
                    Frame("authenticateByRefreshToken", "request", "", FALSE, NoData)),
               PATH_AUTH, [grant_type |-> "refresh_token", refresh_token |-> rt], FALSE)

\* authenticateByRefreshToken(refreshToken), up to `await this.request(...)`
authenticateByRefreshToken(m, rt) ==
  IF ~Truthy(rt)
  THEN Throw(m, "MissingRefreshToken", "", 0)
  ELSE request(Push([m EXCEPT !.refreshToken = rt],
                    Frame("authenticateByRefreshToken", "request", "", FALSE, NoData)),
               PATH_AUTH, [grant_type |-> "refresh_token", refresh_token |-> rt], FALSE)

\* authenticateByClientCredentials(), up to `await this.request(...)`
authenticateByClientCredentials(m) ==
  request(Push(m, Frame("authenticateByClientCredentials", "request", "", FALSE, NoData)),
          PATH_AUTH, [grant_type |-> "password", refresh_token |-> NULL], FALSE)

\* checkAndSetAccesToken testing the expiry alone
checkAndSetAccesToken_IgnoresToken(at, exp, t) == InFuture(exp, t)

\* checkAndSetAccesToken(accessToken, expiresInTimestamp): its boolean result
checkAndSetAccesToken(at, exp, t) == Truthy(at) /\ InFuture(exp, t)

\* connect storing the refreshToken argument even when none is given
connect_StoresEmptyRefresh(m, at, rt, exp, t) ==
  LET called == [m EXCEPT !.log = Append(@, ConnectEvent)]
  IN IF checkAndSetAccesToken(at, exp, t)
     THEN Return([called EXCEPT !.accessToken = at, !.expiresInTimestamp = exp,
                                !.refreshToken = rt], NoBody)
     ELSE IF Truthy(rt)
     THEN authenticateByRefreshToken(
            Push(called, Frame("connect", "refresh", "", FALSE, NoData)), rt)
     ELSE authenticateByClientCredentials(
            Push(called, Frame("connect", "credentials", "", FALSE, NoData)))

\* connect(accessToken, refreshToken, expiresInTimestamp), up to its first await
connect(m, at, rt, exp, t) ==
  LET called == [m EXCEPT !.log = Append(@, ConnectEvent)]
  IN IF checkAndSetAccesToken(at, exp, t)
     THEN LET adopted == [called EXCEPT !.accessToken = at,
                                        !.expiresInTimestamp = exp]
          IN Return(IF Truthy(rt) THEN [adopted EXCEPT !.refreshToken = rt]
                                  ELSE adopted, NoBody)
     ELSE IF Truthy(rt)
     THEN authenticateByRefreshToken(
            Push(called, Frame("connect", "refresh", "", FALSE, NoData)), rt)
     ELSE authenticateByClientCredentials(
            Push(called, Frame("connect", "credentials", "", FALSE, NoData)))

\* the signature test without the vendor error code
IsExpiredToken_AnyCode(r) ==
  /\ r.status # 0 /\ r.hasData
  /\ r.status \in {401, 403}
  /\ r.error = "object"

\* the expired-token signature tested in the catch block of request
IsExpiredToken(r) ==
  /\ r.status # 0 /\ r.hasData
  /\ r.status \in {401, 403}
  /\ r.error = "object" /\ r.code = 3

\* the catch block testing error.message before error_description
FailureMessage_MessageFirst(r) ==
  IF r.status # 0 /\ r.hasData
  THEN IF r.error = "object" /\ r.message THEN "error.message"
       ELSE IF r.error_description THEN "error_description"
       ELSE IF r.error # "absent" THEN "json(error)"
       ELSE "transport"
  ELSE "transport"

\* which text the catch block of request puts in the error it throws
FailureMessage(r) ==
  IF r.status # 0 /\ r.hasData
  THEN IF r.error_description THEN "error_description"
       ELSE IF r.error = "object" /\ r.message THEN "error.message"
       ELSE IF r.error # "absent" THEN "json(error)"
       ELSE "transport"
  ELSE "transport"

\* the catch block dropping the access token on every rejection
requestCatch_AlwaysClears(m, r, t) ==
  LET fr == Top(m)
  IN IF ~fr.isRetry /\ IsExpiredToken(r)
     THEN connect(SetPc([m EXCEPT !.accessToken = NULL], "connect"),
                  NULL, m.refreshToken, m.expiresInTimestamp, t)
     ELSE Throw(Pop([m EXCEPT !.accessToken = NULL]), "RequestFailed", FailureMessage(r),
                IF FailureMessage(r) = "transport" THEN 0 ELSE r.status)

\* the catch block of request, entered when axios rejects with r
requestCatch(m, r, t) ==
  LET fr == Top(m)
  IN IF ~fr.isRetry /\ IsExpiredToken(r)
     THEN connect(SetPc([m EXCEPT !.accessToken = NULL], "connect"),
                  NULL, m.refreshToken, m.expiresInTimestamp, t)
     ELSE Throw(Pop(m), "RequestFailed", FailureMessage(r),
                IF FailureMessage(r) = "transport" THEN 0 ELSE r.status)

\* request re-issuing the call with the Authorization header of its first attempt
requestAfterConnect_KeepsHeader(m) ==
  LET fr == Top(m)
      first == CHOOSE i \in DOMAIN m.log :
                 /\ m.log[i].ev = "http" /\ m.log[i].path = fr.path
                 /\ \A j \in DOMAIN m.log :
                      (m.log[j].ev = "http" /\ m.log[j].path = fr.path) => j <= i
  IN IF m.comp.kind = "throw" THEN Pop(m)
     ELSE Awaiting(Push(Logged(SetPc(m, "retry"),
                               HttpEvent(fr.path, fr.data, m.log[first].bearer)),
                        Frame("request", "axios", fr.path, TRUE, fr.data)))

\* request resumes after `await this.connect(...)`: re-issue with isRetry = true
requestAfterConnect(m) ==
  LET fr == Top(m)
  IN IF m.comp.kind = "throw" THEN Pop(m)
     ELSE request(SetPc(m, "retry"), fr.path, fr.data, TRUE)

\* request resumes after `return await this.request(..., true)`
requestAfterRetry(m) == Pop(m)

\* connect trying the password grant when the refresh-token grant failed
connectAfterAuthenticate_FallsBack(m) ==
  IF m.comp.kind = "throw"
  THEN IF Top(m).pc = "refresh"
       THEN authenticateByClientCredentials(SetPc(m, "credentials"))
       ELSE Pop(m)
  ELSE Return(Pop(m), NoBody)

\* connect resumes after its awaited authentication
connectAfterAuthenticate(m) ==
  IF m.comp.kind = "throw" THEN Pop(m) ELSE Return(Pop(m), NoBody)

\* an authenticate method resumes after `await this.request(...)`
authenticateAfterRequest(m, t) ==
  IF m.comp.kind = "throw" THEN Pop(m) ELSE setToken(Pop(m), m.comp.body, t)

-----------------------------------------------------------------------------
(* processMeasure *)

Num(n) == [t |-> "number", n |-> n]
False == [t |-> "boolean", n |-> 0]
MeasureValues == {Num(0), Num(1), False}
ValueTruthy(v) == v.n # 0

EmptyRecord == [k \in {} |-> Num(0)]

\* the (source key, destination key) pairs of processMeasure, in the order of its tests
MeasureTable ==
  << <<"Temperature", "temperature">>, <<"temp_trend", "temptrend">>,
     <<"Pressure", "pressure">>, <<"AbsolutePressure", "pressureabs">>,
     <<"pressure_trend", "pressuretrend">>, <<"Humidity", "humidity">>,
     <<"CO2", "co2">>, <<"Noise", "noise">>, <<"Rain", "rain">>,
     <<"sum_rain_1", "sumrain1">>, <<"sum_rain_24", "sumrain24">>,
     <<"WindStrength", "windstrength">>, <<"WindAngle", "windangle">>,
     <<"GustStrength", "guststrength">>, <<"GustAngle", "gustangle">>,
     <<"health_idx", "healthidx">> >>

\* Object.prototype.hasOwnProperty.call(measure, key)
hasOwnProperty(ms, key) == key \in DOMAIN ms

\* one `if (hasOwnProperty(measure, src)) { data.dst = measure.src }`
copyField(ms, d, src, dst) ==
  IF hasOwnProperty(ms, src) THEN (dst :> ms[src]) @@ d ELSE d

RECURSIVE copyFields(_, _, _)
copyFields(ms, d, i) ==
  IF i > Len(MeasureTable) THEN d
  ELSE copyFields(ms, copyField(ms, d, MeasureTable[i][1], MeasureTable[i][2]), i + 1)

\* processMeasure copying the lowercase alias of CO2 as well
processMeasure_CopiesAlias(ms) ==
  copyField(ms, copyFields(ms, EmptyRecord, 1), "co2", "co2")

processMeasure(ms) == copyFields(ms, EmptyRecord, 1)

\* keys a dashboard_data object of the API carries, and two the vendor may add
VendorKeys ==
  {"Temperature", "temp_trend", "Pressure", "AbsolutePressure", "pressure_trend",
   "Humidity", "CO2", "Noise", "Rain", "sum_rain_1", "sum_rain_24", "WindStrength",
   "WindAngle", "GustStrength", "GustAngle", "health_idx", "min_temp", "max_temp",
   "date_min_temp", "date_max_temp", "max_wind_str", "max_wind_angle",
   "date_max_wind_str", "time_utc", "co2", "battery_vp"}

RECURSIVE KeySets(_)
KeySets(n) ==
  IF n = 0 THEN {{}}
  ELSE KeySets(n - 1) \cup {S \cup {k} : S \in KeySets(n - 1), k \in VendorKeys}

Measures == UNION {[S -> MeasureValues] : S \in KeySets(MaxKeys)}

NotComputed == [computed |-> FALSE, record |-> EmptyRecord]

-----------------------------------------------------------------------------
(* Devices of the API, processStation and processAircare *)

Str(s) == [t |-> "string", s |-> s]

\* station.reachable: true, false or absent
Reachables == {"true", "false", NULL}
\* (device.reachable === false) ? 0 : 1
online_UnlessFalse(reachable) == IF reachable = "false" THEN Num(0) ELSE Num(1)

\* (device.reachable) ? 1 : 0
online(reachable) == IF reachable = "true" THEN Num(1) ELSE Num(0)

\* device.dashboard_data: absent, or an object of raw measurements
NoDashboardData == [defined |-> FALSE, fields |-> EmptyRecord]
DashboardData(ms) == [defined |-> TRUE, fields |-> ms]
DashboardDatas ==
  {NoDashboardData, DashboardData(EmptyRecord),
   DashboardData("Temperature" :> Num(1)), DashboardData("time_utc" :> Num(1))}

\* a module of a station; field id stands for _id
ModuleIds == {"m1", "m2"}
Modules ==
  [kind : {"module"}, id : ModuleIds, module_name : {"Outdoor"}, type : {"NAModule1"},
   reachable : Reachables, rf_status : {Num(1)}, battery_percent : {Num(0)},
   dashboard_data : {NoDashboardData, DashboardData("Temperature" :> Num(1))}]

RECURSIVE ListsUpTo(_, _)
ListsUpTo(S, n) ==
  IF n = 0 THEN {<<>>}
  ELSE ListsUpTo(S, n - 1) \cup
       {Append(l, x) : l \in {k \in ListsUpTo(S, n - 1) : Len(k) = n - 1}, x \in S}

\* station.modules: absent, or a list
NoModules == [defined |-> FALSE, list |-> <<>>]
ModuleLists == {NoModules} \cup {[defined |-> TRUE, list |-> l] : l \in ListsUpTo(Modules, MaxModules)}

\* a weather station of getstationsdata; field id stands for _id
Stations ==
  [kind : {"station"}, id : {"s1"}, station_name : {"Casa"}, type : {"NAMain"},
   home_name : {"Home"}, module_name : {"Indoor"}, reachable : Reachables,
   wifi_status : {Num(1)}, dashboard_data : DashboardDatas, modules : ModuleLists]

\* an air-quality monitor of gethomecoachsdata; field id stands for _id
Aircares ==
  [kind : {"aircare"}, id : {"a1"}, station_name : {"Bedroom"}, type : {"NHC"},
   home_name : {"Home"}, module_name : {"Indoor"}, reachable : Reachables,
   wifi_status : {Num(1)}, dashboard_data : DashboardDatas, modules : {NoModules}]

NoDevice ==
  [kind |-> "none", id |-> "", station_name |-> "", type |-> "", home_name |-> "",
   module_name |-> "", reachable |-> NULL, wifi_status |-> Num(0),
   dashboard_data |-> NoDashboardData, modules |-> NoModules]

\* eventEmitter.emit('frame', frame)
emit(m, frame) == [m EXCEPT !.frames = Append(@, frame)]
\* logger.warn(`This station have no modules: ${name}`)
warn(m, name) == [m EXCEPT !.warnings = Append(@, name)]
\* _.isEmpty(station.modules)
isEmpty(modules) == ~modules.defined \/ modules.list = <<>>

\* the frame processStation builds for the station itself
StationFrame(station) ==
  ("id" :> Str(station.id)) @@ ("name" :> Str(station.station_name))
  @@ ("type" :> Str(station.type)) @@ ("home" :> Str(station.home_name))
  @@ ("online" :> online(station.reachable)) @@ ("wifistatus" :> station.wifi_status)
  @@ processMeasure(station.dashboard_data.fields)

\* the frame processStation builds for one module
ModuleFrame(station, module) ==
  ("id" :> Str(module.id)) @@ ("name" :> Str(module.module_name))
  @@ ("type" :> Str(module.type)) @@ ("home" :> Str(station.home_name))
  @@ ("online" :> online(module.reachable)) @@ ("rfstatus" :> module.rf_status)
  @@ ("battery" :> module.battery_percent)
  @@ processMeasure(module.dashboard_data.fields)

\* the frame processAircare builds
AircareFrame(aircare) ==
  ("id" :> Str(aircare.id)) @@ ("name" :> Str(aircare.station_name))
  @@ ("type" :> Str(aircare.type)) @@ ("module" :> Str(aircare.module_name))
  @@ ("online" :> online(aircare.reachable)) @@ ("wifistatus" :> aircare.wifi_status)
  @@ processMeasure(aircare.dashboard_data.fields)

\* the loop of processStation over station.modules, from module i on;
\* hasOwnProperty.call(undefined, ...) in processMeasure throws a TypeError
RECURSIVE processModules(_, _, _)
processModules(m, station, i) ==
  IF i > Len(station.modules.list) THEN Return(m, NoBody)
  ELSE LET module == station.modules.list[i]
       IN IF ~module.dashboard_data.defined
          THEN Throw(m, "TypeError", "", 0)
          ELSE processModules(emit(m, ModuleFrame(station, module)), station, i + 1)

\* processStation(station)
processStation(m, station) ==
  IF ~station.dashboard_data.defined
  THEN Throw(m, "TypeError", "", 0)
  ELSE LET emitted == emit(m, StationFrame(station))
       IN IF isEmpty(station.modules)
          THEN Return(warn(emitted, station.station_name), NoBody)
          ELSE processModules(emitted, station, 1)

\* processAircare(aircare)
processAircare(m, aircare) ==
  IF ~aircare.dashboard_data.defined
  THEN Throw(m, "TypeError", "", 0)
  ELSE Return(emit(m, AircareFrame(aircare)), NoBody)

-----------------------------------------------------------------------------
(* The data accessors, pollData and startPolling *)

\* the devices the API answers with: a reachable device carries dashboard_data
PollModule ==
  [kind |-> "module", id |-> "m1", module_name |-> "Outdoor", type |-> "NAModule1",
   reachable |-> "true", rf_status |-> Num(1), battery_percent |-> Num(0),
   dashboard_data |-> DashboardData("Temperature" :> Num(1))]
PollDevices(Devices) ==
  {d \in Devices :
     /\ d.reachable \in {"true", NULL}
     /\ d.dashboard_data = IF d.reachable = "true"
                           THEN DashboardData("Temperature" :> Num(1))
                           ELSE NoDashboardData
     /\ d.modules \in {NoModules, [defined |-> TRUE, list |-> <<PollModule>>]}}

StationBodies ==
  {[DataBody EXCEPT !.devices = l] : l \in ListsUpTo(PollDevices(Stations), MaxDevices)}
AircareBodies ==
  {[DataBody EXCEPT !.devices = l] : l \in ListsUpTo(PollDevices(Aircares), MaxDevices)}

\* what axios may resolve with for a path
OkBodies(path) ==
  IF path = PATH_AUTH THEN AuthBodies
  ELSE IF path = PATH_API THEN StationBodies
  ELSE IF path = PATH_HOMECOACH THEN AircareBodies
  ELSE {DataBody}

\* an accessor: `return (await this.request(HTTP_GET, path, params, null)).body...`
accessor(m, fn, path) ==
  request(Push(m, Frame(fn, "request", "", FALSE, NoData)), path, NoData, FALSE)

getHomesData(m) == accessor(m, "getHomesData", PATH_HOMESDATA)

\* getHomeStatus accepting a missing homeId
getHomeStatus_NoCheck(m, homeId) == accessor(m, "getHomeStatus", PATH_HOMESTATUS)

getHomeStatus(m, homeId) ==
  IF ~Truthy(homeId) THEN Throw(m, "MissingHomeId", "", 0)
  ELSE accessor(m, "getHomeStatus", PATH_HOMESTATUS)

getStationsData(m) == accessor(m, "getStationsData", PATH_API)

getMeasure(m, deviceId, mScale, mType) ==
  IF ~Truthy(deviceId) \/ ~Truthy(mScale) \/ ~Truthy(mType)
  THEN Throw(m, "MissingMeasureParams", "", 0)
  ELSE accessor(m, "getMeasure", PATH_MEASURE)

getHomeCoachData(m) == accessor(m, "getHomeCoachData", PATH_HOMECOACH)

Accessors ==
  {"getHomesData", "getHomeStatus", "getStationsData", "getMeasure", "getHomeCoachData"}

\* an accessor resumes after `await this.request(...)` and unwraps the answer
accessorAfterRequest(m) ==
  IF m.comp.kind = "throw" THEN Pop(m) ELSE Return(Pop(m), m.comp.body)

\* a loop `for (...) { await this.process(list[i]) }` from element i on, where
\* process is processStation or processAircare; a throw ends the loop
RECURSIVE processAll(_, _, _)
processAll(m, list, i) ==
  IF i > Len(list) THEN Return(m, NoBody)
  ELSE LET done == IF list[i].kind = "station" THEN processStation(m, list[i])
                   ELSE processAircare(m, list[i])
       IN IF done.comp.kind = "throw" THEN done ELSE processAll(done, list, i + 1)

\* pollData(), up to `await this.getStationsData()`
pollData(m) == getStationsData(Push(m, Frame("pollData", "stations", "", FALSE, NoData)))

\* pollData going on to the air-quality devices when the stations fetch failed
pollDataAfterStations_Swallows(m) ==
  IF m.comp.kind = "throw" THEN getHomeCoachData(SetPc(m, "aircares"))
  ELSE LET processed == processAll(m, m.comp.body.devices, 1)
       IN IF processed.comp.kind = "throw" THEN Pop(processed)
          ELSE getHomeCoachData(SetPc(processed, "aircares"))

\* pollData resumes after `await this.getStationsData()`
pollDataAfterStations(m) ==
  IF m.comp.kind = "throw" THEN Pop(m)
  ELSE LET processed == processAll(m, m.comp.body.devices, 1)
       IN IF processed.comp.kind = "throw" THEN Pop(processed)
          ELSE getHomeCoachData(SetPc(processed, "aircares"))

\* pollData resumes after `await this.getHomeCoachData()`
pollDataAfterAircares(m) ==
  IF m.comp.kind = "throw" THEN Pop(m)
  ELSE Pop(processAll(m, m.comp.body.devices, 1))

\* startPolling connecting with the tokens the client holds
startPolling_ReusesToken(m, t) ==
  connect(Push(m, Frame("startPolling", "connect", "", FALSE, NoData)),
          m.accessToken, m.refreshToken, m.expiresInTimestamp, t)

\* startPolling(), up to `await this.connect()`
startPolling(m, t) ==
  connect(Push(m, Frame("startPolling", "connect", "", FALSE, NoData)), NULL, NULL, 0, t)

\* startPolling resumes after `await this.connect()`
startPollingAfterConnect(m) ==
  IF m.comp.kind = "throw" THEN Pop(m) ELSE pollData(SetPc(m, "pollData"))

\* startPolling resumes after `await this.pollData()`: the code after it
\* registers the timer and the signal handlers
startPollingAfterPollData(m) ==
  IF m.comp.kind = "throw" THEN Pop(m) ELSE Return(Pop(m), NoBody)

-----------------------------------------------------------------------------
(* The constructor *)

CredValues == {NULL, "", "x"}

NoCtor == [state |-> "none", err |-> "", clientId |-> NULL, clientSecret |-> NULL,
           username |-> NULL, password |-> NULL]

\* the constructor testing username and password before the client credentials
constructorError_UserFirst(cid, cs, u, p) ==
  IF ~Truthy(u) \/ ~Truthy(p) THEN "ConfigurationError:credentials"
  ELSE IF ~Truthy(cid) \/ ~Truthy(cs) THEN "ConfigurationError:client"
  ELSE ""

\* which error `new NetatmoClient(clientId, clientSecret, username, password)` throws
constructorError(cid, cs, u, p) ==
  IF ~Truthy(cid) \/ ~Truthy(cs) THEN "ConfigurationError:client"
  ELSE IF ~Truthy(u) \/ ~Truthy(p) THEN "ConfigurationError:credentials"
  ELSE ""

\* the token fields and the timer a new instance starts with
constructorFields ==
  [accessToken |-> NULL, refreshToken |-> NULL, expiresInTimestamp |-> 0,
   intervalId |-> NULL]

-----------------------------------------------------------------------------
(* Top-level calls of a flow *)

NoOp == [name |-> "none", accessToken |-> NULL, refreshToken |-> NULL,
         expiresInTimestamp |-> 0, path |-> "", isRetry |-> FALSE, args |-> <<>>]

AccessTokenArgs == {NULL, "", "tokA"}
RefreshTokenArgs == {NULL, "", "refA"}
ExpiryArgs == {0, TicksPerSecond, MaxNow + 1}

Fresh(f) == [Machine(f) EXCEPT !.log = <<>>, !.comp = NoComp]

Begin(f, o) ==
  /\ ctor.state = "constructed"
  /\ status[f] # "running"
  /\ op' = [op EXCEPT ![f] = o]
  /\ status' = [status EXCEPT ![f] = "running"]
  /\ result' = [result EXCEPT ![f] = NoComp]
  /\ UNCHANGED <<ctor, intervalId, now, measureVars, device, registered, response,
                 process>>

Idle == \A f \in AllFlows : status[f] # "running"

Init ==
  /\ ctor = NoCtor
  /\ accessToken = NULL
  /\ refreshToken = NULL
  /\ expiresInTimestamp = 0
  /\ intervalId = NULL
  /\ now = 0
  /\ stack = [f \in AllFlows |-> <<>>]
  /\ comp = [f \in AllFlows |-> NoComp]
  /\ log = [f \in AllFlows |-> <<>>]
  /\ op = [f \in AllFlows |-> NoOp]
  /\ status = [f \in AllFlows |-> "idle"]
  /\ result = [f \in AllFlows |-> NoComp]
  /\ measure = EmptyRecord
  /\ data = NotComputed
  /\ device = NoDevice
  /\ frames = <<>>
  /\ warnings = <<>>
  /\ registered = NoRegistration
  /\ response = NoResponse
  /\ process = NoProcess

\* new NetatmoClient(cid, cs, u, p); a throwing constructor leaves no new instance.
\* A second construction replaces a working client only by another working one.
Construct(cid, cs, u, p) ==
  /\ Idle
  /\ ctor.state = "constructed" => constructorError(cid, cs, u, p) = ""
  /\ IF constructorError(cid, cs, u, p) # ""
     THEN /\ ctor' = [state |-> "failed", err |-> constructorError(cid, cs, u, p),
                      clientId |-> cid, clientSecret |-> cs,
                      username |-> u, password |-> p]
          /\ UNCHANGED <<clientVars, intervalId>>
     ELSE /\ ctor' = [state |-> "constructed", err |-> "",
                      clientId |-> cid, clientSecret |-> cs,
                      username |-> u, password |-> p]
          /\ accessToken' = constructorFields.accessToken
          /\ refreshToken' = constructorFields.refreshToken
          /\ expiresInTimestamp' = constructorFields.expiresInTimestamp
          /\ intervalId' = constructorFields.intervalId
  /\ status' = [f \in AllFlows |-> "idle"]
  /\ UNCHANGED <<now, stack, comp, log, op, result, measureVars, pollVars>>

\* the clock advances
Tick ==
  /\ now < MaxNow
  /\ now' = now + 1
  /\ UNCHANGED <<ctor, clientVars, intervalId, flowVars, measureVars, pollVars>>

CallConnect(f, at, rt, exp) ==
  /\ Begin(f, [NoOp EXCEPT !.name = "connect", !.accessToken = at,
                           !.refreshToken = rt, !.expiresInTimestamp = exp])
  /\ Apply(f, connect(Fresh(f), at, rt, exp, now))

CallAuthenticateByRefreshToken(f, rt) ==
  /\ Begin(f, [NoOp EXCEPT !.name = "authenticateByRefreshToken",
                           !.refreshToken = rt])
  /\ Apply(f, authenticateByRefreshToken(Fresh(f), rt))

CallAuthenticateByClientCredentials(f) ==
  /\ Begin(f, [NoOp EXCEPT !.name = "authenticateByClientCredentials"])
  /\ Apply(f, authenticateByClientCredentials(Fresh(f)))

CallRequest(f, path, isRetry) ==
  /\ Begin(f, [NoOp EXCEPT !.name = "request", !.path = path, !.isRetry = isRetry])
  /\ Apply(f, request(Fresh(f), path, NoData, isRetry))

-----------------------------------------------------------------------------
(* Steps of a running call *)

AtAxios(f) ==
  /\ status[f] = "running"
  /\ comp[f].kind = "none"
  /\ stack[f] # <<>>
  /\ Top(Machine(f)).fn = "request"
  /\ Top(Machine(f)).pc = "axios"

Resuming(f, fns, pc) ==
  /\ status[f] = "running"
  /\ comp[f].kind # "none"
  /\ stack[f] # <<>>
  /\ Top(Machine(f)).fn \in fns
  /\ Top(Machine(f)).pc = pc

Step(f, m) ==
  /\ Apply(f, m)
  /\ UNCHANGED <<ctor, intervalId, now, op, status, result, measureVars,
                 device, registered, process>>

FlowStep(f, m) ==
  /\ Step(f, m)
  /\ UNCHANGED response

\* axios resolves: `return result.data`
HttpRespondOk(f, body) ==
  /\ AtAxios(f)
  /\ body \in OkBodies(Top(Machine(f)).path)
  /\ FlowStep(f, Return(Pop(Logged(Machine(f),
                                   OkEvent(Top(Machine(f)).path, body))), body))

\* axios rejects: the catch block of request
HttpRespondError(f, r) ==
  /\ AtAxios(f)
  /\ Len(requestCatch(Machine(f), r, now).stack) <= MaxDepth
  /\ FlowStep(f, requestCatch(Logged(Machine(f),
                                      ResponseEvent(IF IsExpiredToken(r) THEN "expired"
                                                    ELSE "error",
                                                    Top(Machine(f)).path)), r, now))

\* axios rejects, and the rejection is kept for inspection
HttpRespondErrorSeen(f, r) ==
  /\ AtAxios(f)
  /\ Len(requestCatch(Machine(f), r, now).stack) <= MaxDepth
  /\ Step(f, requestCatch(Logged(Machine(f),
                                  ResponseEvent(IF IsExpiredToken(r) THEN "expired"
                                                ELSE "error",
                                                Top(Machine(f)).path)), r, now))
  /\ response' = [seen |-> TRUE, r |-> r]

ResumeRequestAfterConnect(f) ==
  /\ Resuming(f, {"request"}, "connect")
  /\ FlowStep(f, requestAfterConnect(Machine(f)))

ResumeRequestAfterRetry(f) ==
  /\ Resuming(f, {"request"}, "retry")
  /\ FlowStep(f, requestAfterRetry(Machine(f)))

ResumeConnect(f) ==
  /\ Resuming(f, {"connect"}, Top(Machine(f)).pc)
  /\ FlowStep(f, connectAfterAuthenticate(Machine(f)))

ResumeAuthenticate(f) ==
  /\ Resuming(f, {"authenticateByRefreshToken", "authenticateByClientCredentials"},
              "request")
  /\ FlowStep(f, authenticateAfterRequest(Machine(f), now))

\* the promise of the top-level call settles
Settling(f) ==
  /\ status[f] = "running"
  /\ comp[f].kind # "none"
  /\ stack[f] = <<>>
  /\ result' = [result EXCEPT ![f] = comp[f]]
  /\ status' = [status EXCEPT ![f] = "done"]
  /\ comp' = [comp EXCEPT ![f] = NoComp]
  /\ UNCHANGED <<ctor, clientVars, intervalId, now, stack, log, op, measureVars,
                 device, emitVars, registered, response>>

\* the promise settles in a caller that awaits it and goes on
Settle(f) ==
  /\ Settling(f)
  /\ UNCHANGED process

Next ==
  \/ \E cid \in CredValues, cs \in CredValues, u \in CredValues, p \in CredValues :
       Construct(cid, cs, u, p)
  \/ Tick
  \/ \E f \in AllFlows, at \in AccessTokenArgs, rt \in RefreshTokenArgs, exp \in ExpiryArgs :
       CallConnect(f, at, rt, exp)
  \/ \E f \in AllFlows, rt \in RefreshTokenArgs : CallAuthenticateByRefreshToken(f, rt)
  \/ \E f \in AllFlows : CallAuthenticateByClientCredentials(f)
  \/ \E f \in AllFlows, path \in Paths, isRetry \in BOOLEAN : CallRequest(f, path, isRetry)
  \/ \E f \in AllFlows, body \in AuthBodies \cup {DataBody} : HttpRespondOk(f, body)
  \/ \E f \in AllFlows, r \in ErrorResponses : HttpRespondError(f, r)
  \/ \E f \in AllFlows : ResumeRequestAfterConnect(f)
  \/ \E f \in AllFlows : ResumeRequestAfterRetry(f)
  \/ \E f \in AllFlows : ResumeConnect(f)
  \/ \E f \in AllFlows : ResumeAuthenticate(f)
  \/ \E f \in AllFlows : Settle(f)

Spec == Init /\ [][Next]_vars

TypeOK ==
  /\ ctor.state \in {"none", "failed", "constructed"}
  /\ \A f \in AllFlows : Len(stack[f]) <= MaxDepth

-----------------------------------------------------------------------------
(* The specification of processMeasure alone *)

InitMeasure ==
  /\ ctor = [state |-> "constructed", err |-> "", clientId |-> "x",
             clientSecret |-> "x", username |-> "x", password |-> "x"]
  /\ accessToken = constructorFields.accessToken
  /\ refreshToken = constructorFields.refreshToken
  /\ expiresInTimestamp = constructorFields.expiresInTimestamp
  /\ intervalId = constructorFields.intervalId
  /\ now = 0
  /\ stack = [f \in AllFlows |-> <<>>]
  /\ comp = [f \in AllFlows |-> NoComp]
  /\ log = [f \in AllFlows |-> <<>>]
  /\ op = [f \in AllFlows |-> NoOp]
  /\ status = [f \in AllFlows |-> "idle"]
  /\ result = [f \in AllFlows |-> NoComp]
  /\ measure \in Measures
  /\ data = NotComputed
  /\ device = NoDevice
  /\ frames = <<>>
  /\ warnings = <<>>
  /\ registered = NoRegistration
  /\ response = NoResponse
  /\ process = NoProcess

\* data = await client.processMeasure(measure)
ProcessMeasure ==
  /\ ~data.computed
  /\ data' = [computed |-> TRUE, record |-> processMeasure(measure)]
  /\ UNCHANGED <<ctor, clientVars, intervalId, now, flowVars, measure, pollVars>>

NextMeasure == ProcessMeasure

SpecMeasure == InitMeasure /\ [][NextMeasure]_vars

-----------------------------------------------------------------------------
(* The specification of the failures of request: requests on a new client *)
(* or on one that adopted a token, the clock standing still, each          *)
(* rejection kept                                                          *)

\* a constructed client with no call in progress, whatever tokens it holds
IdleClient ==
  /\ ctor = [state |-> "constructed", err |-> "", clientId |-> "x",
             clientSecret |-> "x", username |-> "x", password |-> "x"]
  /\ intervalId = constructorFields.intervalId
  /\ now = 0
  /\ stack = [f \in AllFlows |-> <<>>]
  /\ comp = [f \in AllFlows |-> NoComp]
  /\ log = [f \in AllFlows |-> <<>>]
  /\ op = [f \in AllFlows |-> NoOp]
  /\ status = [f \in AllFlows |-> "idle"]
  /\ result = [f \in AllFlows |-> NoComp]
  /\ measure = EmptyRecord
  /\ data = NotComputed
  /\ frames = <<>>
  /\ warnings = <<>>
  /\ registered = NoRegistration
  /\ response = NoResponse
  /\ process = NoProcess

\* a constructed client nothing has been called on
NewClient ==
  /\ IdleClient
  /\ accessToken = constructorFields.accessToken
  /\ refreshToken = constructorFields.refreshToken
  /\ expiresInTimestamp = constructorFields.expiresInTimestamp

\* a client after connect(accessToken, refreshToken, expiresInTimestamp) adopted
\* a token that has not expired, with or without a refresh token
AdoptedClient ==
  /\ IdleClient
  /\ accessToken = "tokA"
  /\ refreshToken \in {NULL, "refA"}
  /\ expiresInTimestamp = MaxNow + 1

InitErrors ==
  /\ NewClient \/ AdoptedClient
  /\ device = NoDevice

NextErrors ==
  \/ \E f \in AllFlows, path \in Paths, isRetry \in BOOLEAN : CallRequest(f, path, isRetry)
  \/ \E f \in AllFlows, body \in AuthBodies \cup {DataBody} : HttpRespondOk(f, body)
  \/ \E f \in AllFlows, r \in ErrorResponses : HttpRespondErrorSeen(f, r)
  \/ \E f \in AllFlows : ResumeRequestAfterConnect(f)
  \/ \E f \in AllFlows : ResumeRequestAfterRetry(f)
  \/ \E f \in AllFlows : ResumeConnect(f)
  \/ \E f \in AllFlows : ResumeAuthenticate(f)
  \/ \E f \in AllFlows : Settle(f)

SpecErrors == InitErrors /\ [][NextErrors]_vars

-----------------------------------------------------------------------------
(* The specification of one authentication: a client that holds the tokens *)
(* of an earlier authentication is asked once to connect or authenticate,  *)
(* the clock standing still                                                 *)

\* a client after setToken stored {tokB, refB, expires_in: 1} at time 0
RenewedClient ==
  /\ IdleClient
  /\ accessToken = "tokB"
  /\ refreshToken = "refB"
  /\ expiresInTimestamp = TicksPerSecond
  /\ device = NoDevice

NextAuth ==
  \/ \E f \in AllFlows, at \in AccessTokenArgs, rt \in RefreshTokenArgs, exp \in ExpiryArgs :
       status[f] = "idle" /\ CallConnect(f, at, rt, exp)
  \/ \E f \in AllFlows, rt \in RefreshTokenArgs :
       status[f] = "idle" /\ CallAuthenticateByRefreshToken(f, rt)
  \/ \E f \in AllFlows : status[f] = "idle" /\ CallAuthenticateByClientCredentials(f)
  \/ \E f \in AllFlows, body \in AuthBodies : HttpRespondOk(f, body)
  \/ \E f \in AllFlows, r \in ErrorResponses : HttpRespondError(f, r)
  \/ \E f \in AllFlows : ResumeRequestAfterConnect(f)
  \/ \E f \in AllFlows : ResumeRequestAfterRetry(f)
  \/ \E f \in AllFlows : ResumeConnect(f)
  \/ \E f \in AllFlows : ResumeAuthenticate(f)
  \/ \E f \in AllFlows : Settle(f)

SpecAuth == RenewedClient /\ [][NextAuth]_vars

-----------------------------------------------------------------------------
(* The specification of processStation and processAircare alone *)

InitDevice ==
  /\ NewClient
  /\ device \in Stations \cup Aircares

\* await client.processStation(device), once
CallProcessStation(f) ==
  /\ device.kind = "station"
  /\ status[f] = "idle"
  /\ Begin(f, [NoOp EXCEPT !.name = "processStation"])
  /\ Apply(f, processStation(Fresh(f), device))

\* await client.processAircare(device), once
CallProcessAircare(f) ==
  /\ device.kind = "aircare"
  /\ status[f] = "idle"
  /\ Begin(f, [NoOp EXCEPT !.name = "processAircare"])
  /\ Apply(f, processAircare(Fresh(f), device))

NextDevice ==
  \/ \E f \in AllFlows : CallProcessStation(f)
  \/ \E f \in AllFlows : CallProcessAircare(f)
  \/ \E f \in AllFlows : Settle(f)

SpecDevice == InitDevice /\ [][NextDevice]_vars

-----------------------------------------------------------------------------
(* The specification of the data accessors and of polling: calls on a new  *)
(* client or on one that adopted a token, the clock standing still, while  *)
(* no frame has been emitted yet                                           *)

StringArgs == {NULL, "", "x"}

CallGetHomesData(f) ==
  /\ frames = <<>>
  /\ Begin(f, [NoOp EXCEPT !.name = "getHomesData"])
  /\ Apply(f, getHomesData(Fresh(f)))

CallGetHomeStatus(f, homeId) ==
  /\ frames = <<>>
  /\ Begin(f, [NoOp EXCEPT !.name = "getHomeStatus", !.args = <<homeId>>])
  /\ Apply(f, getHomeStatus(Fresh(f), homeId))

CallGetMeasure(f, deviceId, mScale, mType) ==
  /\ frames = <<>>
  /\ Begin(f, [NoOp EXCEPT !.name = "getMeasure", !.args = <<deviceId, mScale, mType>>])
  /\ Apply(f, getMeasure(Fresh(f), deviceId, mScale, mType))

CallPollData(f) ==
  /\ frames = <<>>
  /\ Begin(f, [NoOp EXCEPT !.name = "pollData"])
  /\ Apply(f, pollData(Fresh(f)))

\* startPolling is called once, by main
CallStartPolling(f) ==
  /\ frames = <<>>
  /\ registered = NoRegistration
  /\ Begin(f, [NoOp EXCEPT !.name = "startPolling"])
  /\ Apply(f, startPolling(Fresh(f), now))

ResumeAccessor(f) ==
  /\ Resuming(f, Accessors, "request")
  /\ FlowStep(f, accessorAfterRequest(Machine(f)))

ResumePollDataAfterStations(f) ==
  /\ Resuming(f, {"pollData"}, "stations")
  /\ FlowStep(f, pollDataAfterStations(Machine(f)))

ResumePollDataAfterAircares(f) ==
  /\ Resuming(f, {"pollData"}, "aircares")
  /\ FlowStep(f, pollDataAfterAircares(Machine(f)))

ResumeStartPollingAfterConnect(f) ==
  /\ Resuming(f, {"startPolling"}, "connect")
  /\ FlowStep(f, startPollingAfterConnect(Machine(f)))

\* `this.intervalId = setInterval(this.pollData.bind(this), 60000)` and the
\* two process.on(...) follow a pollData that did not throw
ResumeStartPollingAfterPollData(f) ==
  /\ Resuming(f, {"startPolling"}, "pollData")
  /\ Apply(f, startPollingAfterPollData(Machine(f)))
  /\ IF comp[f].kind = "throw"
     THEN UNCHANGED <<intervalId, registered>>
     ELSE /\ intervalId' = "interval"
          /\ registered' = [delay |-> PollDelay, signals |-> PollSignals]
  /\ UNCHANGED <<ctor, now, op, status, result, measureVars, device, response, process>>

InitPoll ==
  /\ NewClient \/ AdoptedClient
  /\ device = NoDevice

NextPoll ==
  \/ \E f \in AllFlows : CallGetHomesData(f)
  \/ \E f \in AllFlows, homeId \in StringArgs : CallGetHomeStatus(f, homeId)
  \/ \E f \in AllFlows, deviceId \in StringArgs, mScale \in StringArgs, mType \in StringArgs :
       CallGetMeasure(f, deviceId, mScale, mType)
  \/ \E f \in AllFlows : CallPollData(f)
  \/ \E f \in AllFlows : CallStartPolling(f)
  \/ \E f \in AllFlows, body \in AuthBodies \cup StationBodies \cup AircareBodies :
       HttpRespondOk(f, body)
  \/ \E f \in AllFlows, r \in ErrorResponses : HttpRespondError(f, r)
  \/ \E f \in AllFlows : ResumeRequestAfterConnect(f)
  \/ \E f \in AllFlows : ResumeRequestAfterRetry(f)
  \/ \E f \in AllFlows : ResumeConnect(f)
  \/ \E f \in AllFlows : ResumeAuthenticate(f)
  \/ \E f \in AllFlows : ResumeAccessor(f)
  \/ \E f \in AllFlows : ResumePollDataAfterStations(f)
  \/ \E f \in AllFlows : ResumePollDataAfterAircares(f)
  \/ \E f \in AllFlows : ResumeStartPollingAfterConnect(f)
  \/ \E f \in AllFlows : ResumeStartPollingAfterPollData(f)
  \/ \E f \in AllFlows : Settle(f)

SpecPoll == InitPoll /\ [][NextPoll]_vars

-----------------------------------------------------------------------------
(* The specification of the program: main has connected MqttClient and     *)
(* constructed the client, calls startPolling, and the timer's ticks run   *)
(* pollData in flows of their own while signals arrive                     *)

TickFlows == {"tick1", "tick2"}
TimerFlows == {"main"} \cup TickFlows

\* the process after `await mqtt.connect()`: MqttClient listens to both signals
MqttConnected == [NoProcess EXCEPT !.mqtt = "connected"]

\* the process receives sig: the listener of MqttClient disconnects, the
\* listener of startPolling calls clearInterval(this.intervalId); a signal
\* nobody listens to ends the process
signal(p, reg, sig) ==
  [p EXCEPT !.delivered = @ \cup {sig},
            !.mqtt = IF @ = "none" THEN @ ELSE "ended",
            !.cleared = @ \/ sig \in reg.signals,
            !.exited = p.mqtt = "none" /\ sig \notin reg.signals]

\* the timer of setInterval is set and was not cleared
TimerActive == intervalId # NULL /\ ~process.cleared

\* what the server answers in this specification
TimerErrorResponses ==
  {r \in ErrorResponses :
     /\ r.hasData /\ ~r.message /\ r.status = 400
     /\ r.error = "absent" /\ r.error_description}
TimerAuthBodies ==
  {b \in AuthBodies :
     \/ b.access_token = "tokB" /\ b.refresh_token = "refB"
          /\ b.has_expires_in /\ b.expires_in = 1
     \/ b.access_token = NULL /\ b.refresh_token = NULL /\ ~b.has_expires_in}
TimerStation ==
  CHOOSE d \in Stations :
    /\ d.reachable = "true" /\ d.modules = NoModules
    /\ d.dashboard_data = DashboardData("Temperature" :> Num(1))
TimerBodies(path) ==
  IF path = PATH_AUTH THEN TimerAuthBodies
  ELSE IF path = PATH_API THEN {[DataBody EXCEPT !.devices = <<TimerStation>>]}
  ELSE {DataBody}

InitTimer ==
  /\ ctor = [state |-> "constructed", err |-> "", clientId |-> "x",
             clientSecret |-> "x", username |-> "x", password |-> "x"]
  /\ accessToken = constructorFields.accessToken
  /\ refreshToken = constructorFields.refreshToken
  /\ expiresInTimestamp = constructorFields.expiresInTimestamp
  /\ intervalId = constructorFields.intervalId
  /\ now = 0
  /\ stack = [f \in TimerFlows |-> <<>>]
  /\ comp = [f \in TimerFlows |-> NoComp]
  /\ log = [f \in TimerFlows |-> <<>>]
  /\ op = [f \in TimerFlows |-> NoOp]
  /\ status = [f \in TimerFlows |-> "idle"]
  /\ result = [f \in TimerFlows |-> NoComp]
  /\ measure = EmptyRecord
  /\ data = NotComputed
  /\ device = NoDevice
  /\ frames = <<>>
  /\ warnings = <<>>
  /\ registered = NoRegistration
  /\ response = NoResponse
  /\ process \in {NoProcess, MqttConnected}

\* a SIGTERM or SIGINT arrives after main has called startPolling
Signal(sig) ==
  /\ status["main"] # "idle"
  /\ process' = signal(process, registered, sig)
  /\ UNCHANGED <<ctor, clientVars, intervalId, now, flowVars, measureVars,
                 device, emitVars, registered, response>>

\* the timer fires: pollData() is called, its promise is not awaited
TimerFires(f) ==
  /\ TimerActive
  /\ Len(frames) < MaxFrames
  /\ Begin(f, [NoOp EXCEPT !.name = "pollData"])
  /\ Apply(f, pollData(Fresh(f)))

\* startPolling settles in main: `catch (e) { ...; process.exit(1) }`
SettleMain(f) ==
  /\ Settling(f)
  /\ process' = IF comp[f].kind = "throw" THEN [process EXCEPT !.exited = TRUE]
                ELSE process

\* the promise of a tick settles and is dropped; nobody handles its
\* rejection, and the process ends or goes on with a warning as the
\* run-time's mode for such rejections has it
SettleTick(f) ==
  /\ status[f] = "running"
  /\ comp[f].kind # "none"
  /\ stack[f] = <<>>
  /\ status' = [status EXCEPT ![f] = "idle"]
  /\ comp' = [comp EXCEPT ![f] = NoComp]
  /\ log' = [log EXCEPT ![f] = <<>>]
  /\ op' = [op EXCEPT ![f] = NoOp]
  /\ UNCHANGED <<ctor, clientVars, intervalId, now, stack, result, measureVars,
                 device, emitVars, registered, response>>
  /\ IF comp[f].kind = "throw"
     THEN \E ends \in BOOLEAN :
            process' = [process EXCEPT !.exited = ends]
     ELSE UNCHANGED process

NextTimer ==
  \/ ~process.exited /\ CallStartPolling("main")
  \/ \E sig \in PollSignals : ~process.exited /\ Signal(sig)
  \/ \E f \in TickFlows : ~process.exited /\ TimerFires(f)
  \/ \E f \in TimerFlows, path \in {PATH_AUTH, PATH_API, PATH_HOMECOACH} :
       \E body \in TimerBodies(path) : ~process.exited /\ HttpRespondOk(f, body)
  \/ \E f \in TimerFlows, r \in TimerErrorResponses :
       ~process.exited /\ HttpRespondError(f, r)
  \/ \E f \in TimerFlows : ~process.exited /\ ResumeConnect(f)
  \/ \E f \in TimerFlows : ~process.exited /\ ResumeAuthenticate(f)
  \/ \E f \in TimerFlows : ~process.exited /\ ResumeAccessor(f)
  \/ \E f \in TimerFlows : ~process.exited /\ ResumePollDataAfterStations(f)
  \/ \E f \in TimerFlows : ~process.exited /\ ResumePollDataAfterAircares(f)
  \/ \E f \in TimerFlows : ~process.exited /\ ResumeStartPollingAfterConnect(f)
  \/ \E f \in TimerFlows : ~process.exited /\ ResumeStartPollingAfterPollData(f)
  \/ ~process.exited /\ SettleMain("main")
  \/ \E f \in TickFlows : ~process.exited /\ SettleTick(f)

SpecTimer == InitTimer /\ [][NextTimer]_vars

-----------------------------------------------------------------------------
(* The specification of recovery: main calls startPolling, one tick runs at *)
(* a time, the server answers as it likes until it recovers, and from then *)
(* on it answers every request successfully; the timer keeps firing, the   *)
(* server keeps answering and the event loop keeps running                 *)

\* what the server may answer with an error before it has recovered
RecoverErrorResponses ==
  {r \in ErrorResponses :
     /\ r.hasData /\ ~r.message
     /\ \/ r.status = 401 /\ r.error = "object" /\ r.code = 3 /\ ~r.error_description
        \/ r.status = 400 /\ r.error = "absent" /\ r.error_description}

\* what the server may answer with status 200
RecoverBodies(path) ==
  IF process.server = "good" /\ path = PATH_AUTH
  THEN {b \in TimerAuthBodies : ValidAuthentication(b)}
  ELSE TimerBodies(path)

InitRecover ==
  /\ InitTimer
  /\ process = MqttConnected

\* from now on the server answers every request successfully
ServerRecovers ==
  /\ ~process.exited
  /\ intervalId # NULL
  /\ process.server = "any"
  /\ process' = [process EXCEPT !.server = "good"]
  /\ UNCHANGED <<ctor, clientVars, intervalId, now, flowVars, measureVars,
                 device, emitVars, registered, response>>

RecoverFails ==
  \E f \in TimerFlows, r \in RecoverErrorResponses :
    ~process.exited /\ process.server = "any" /\ HttpRespondError(f, r)

\* the timer fires
RecoverTick == ~process.exited /\ TimerFires("tick1")

\* the server answers a request with status 200
RecoverAnswers ==
  \E f \in TimerFlows, path \in {PATH_AUTH, PATH_API, PATH_HOMECOACH} :
    \E body \in RecoverBodies(path) : ~process.exited /\ HttpRespondOk(f, body)

\* the event loop runs a continuation that is ready
RecoverRuns ==
  \/ \E f \in TimerFlows : ~process.exited /\ ResumeRequestAfterConnect(f)
  \/ \E f \in TimerFlows : ~process.exited /\ ResumeRequestAfterRetry(f)
  \/ \E f \in TimerFlows : ~process.exited /\ ResumeConnect(f)
  \/ \E f \in TimerFlows : ~process.exited /\ ResumeAuthenticate(f)
  \/ \E f \in TimerFlows : ~process.exited /\ ResumeAccessor(f)
  \/ \E f \in TimerFlows : ~process.exited /\ ResumePollDataAfterStations(f)
  \/ \E f \in TimerFlows : ~process.exited /\ ResumePollDataAfterAircares(f)
  \/ \E f \in TimerFlows : ~process.exited /\ ResumeStartPollingAfterConnect(f)
  \/ \E f \in TimerFlows : ~process.exited /\ ResumeStartPollingAfterPollData(f)
  \/ ~process.exited /\ SettleMain("main")
  \/ ~process.exited /\ SettleTick("tick1")

NextRecover ==
  \/ ~process.exited /\ CallStartPolling("main")
  \/ ServerRecovers
  \/ RecoverFails
  \/ RecoverTick
  \/ RecoverAnswers
  \/ RecoverRuns

SpecRecover ==
  /\ InitRecover /\ [][NextRecover]_vars
  /\ WF_vars(RecoverTick) /\ WF_vars(RecoverAnswers) /\ WF_vars(RecoverRuns)

-----------------------------------------------------------------------------
(* The specification of overlapping requests: two flows call request on a  *)
(* client that holds tokA and refA; the token endpoint answers with status *)
(* 200, the API with 200 or with the expired-token signature               *)

\* the continuations that are ready have run: the event loop takes the next
\* answer or call only then
Drained == \A f \in TickFlows : status[f] = "running" => comp[f].kind = "none"

InitOverlap ==
  /\ ctor = [state |-> "constructed", err |-> "", clientId |-> "x",
             clientSecret |-> "x", username |-> "x", password |-> "x"]
  /\ accessToken = "tokA"
  /\ refreshToken = "refA"
  /\ expiresInTimestamp = MaxNow + 1
  /\ intervalId = constructorFields.intervalId
  /\ now = 0
  /\ stack = [f \in TimerFlows |-> <<>>]
  /\ comp = [f \in TimerFlows |-> NoComp]
  /\ log = [f \in TimerFlows |-> <<>>]
  /\ op = [f \in TimerFlows |-> NoOp]
  /\ status = [f \in TimerFlows |-> "idle"]
  /\ result = [f \in TimerFlows |-> NoComp]
  /\ measure = EmptyRecord
  /\ data = NotComputed
  /\ device = NoDevice
  /\ frames = <<>>
  /\ warnings = <<>>
  /\ registered = NoRegistration
  /\ response = NoResponse
  /\ process = NoProcess

NextOverlap ==
  \/ \E f \in TickFlows : Drained /\ CallRequest(f, PATH_API, FALSE)
  \/ \E f \in TickFlows, body \in TimerAuthBodies \cup {DataBody} :
       Drained /\ HttpRespondOk(f, body)
  \/ \E f \in TickFlows, r \in ErrorResponses :
       /\ Drained /\ AtAxios(f)
       /\ IsExpiredToken(r) /\ ~r.message /\ ~r.error_description /\ r.status = 401
       /\ Top(Machine(f)).path # PATH_AUTH
       /\ HttpRespondError(f, r)
  \/ \E f \in TickFlows : ResumeRequestAfterConnect(f)
  \/ \E f \in TickFlows : ResumeRequestAfterRetry(f)
  \/ \E f \in TickFlows : ResumeConnect(f)
  \/ \E f \in TickFlows : ResumeAuthenticate(f)
  \/ \E f \in TickFlows : Settle(f)

SpecOverlap == InitOverlap /\ [][NextOverlap]_vars

-----------------------------------------------------------------------------
(* Vocabulary of the properties *)

\* positions of the log of flow f that satisfy a test
Events(f, ev) == {i \in DOMAIN log[f] : log[f][i].ev = ev}
HttpCalls(f, path) ==
  {i \in DOMAIN log[f] : log[f][i].ev = "http" /\ log[f][i].path = path}
Responses(f, path) ==
  {i \in DOMAIN log[f] : log[f][i].ev \in {"ok", "expired", "error"}
                           /\ log[f][i].path = path}
ExpiredResponses(f, path) ==
  {i \in DOMAIN log[f] : log[f][i].ev = "expired" /\ log[f][i].path = path}

\* the step begins a top-level call named name in flow f
Begins(f, name) ==
  /\ status[f] # "running"
  /\ status'[f] = "running"
  /\ op'[f].name = name

\* a top-level request(method, path) with isRetry = false on a non-token path
\* whose first HTTP response carried the expired-token signature
FirstAttemptExpired(f) ==
  /\ op[f].name = "request" /\ op[f].path # PATH_AUTH /\ ~op[f].isRetry
  /\ Len(log[f]) >= 2
  /\ log[f][2].ev = "expired"

\* the connect invocations made by expired-token retries of the current call
RetryPathsTaken(f) ==
  Cardinality(Events(f, "connect")) - (IF op[f].name = "connect" THEN 1 ELSE 0)

-----------------------------------------------------------------------------
(* Properties of the request executor *)

\* C1: a request with isRetry=false on a non-token path whose first response is
\* 401/403 with vendor code 3 performs exactly one re-authentication (one connect)
\* and re-issues the request once at most (not at all when the re-authentication
\* fails); a second expired answer makes the call fail with RequestFailed, with
\* no third attempt and no second re-authentication.
C1_OneReauthenticationOneRetry ==
  \A f \in AllFlows :
    (status[f] = "done" /\ FirstAttemptExpired(f)) =>
      /\ Cardinality(Events(f, "connect")) = 1
      /\ Cardinality(HttpCalls(f, op[f].path)) <= 2
      /\ (Cardinality(ExpiredResponses(f, op[f].path)) = 2 =>
            (result[f].kind = "throw" /\ result[f].err = "RequestFailed"))

\* C2: whatever the server answers, the token endpoint included, one top-level
\* call takes the expired-token retry path at most once.
C2_RetryPathAtMostOnce ==
  \A f \in AllFlows : status[f] \in {"running", "done"} => RetryPathsTaken(f) <= 1

\* C3: a request to a non-token path made while the stored access token is empty
\* fails at once with MissingAccessToken and issues no HTTP call; no HTTP call to a
\* non-token path is ever issued without a token.
C3_BeginWithoutToken ==
  \A f \in AllFlows :
    (Begins(f, "request") /\ op'[f].path # PATH_AUTH /\ ~Truthy(accessToken)) =>
      /\ comp'[f].kind = "throw" /\ comp'[f].err = "MissingAccessToken"
      /\ stack'[f] = <<>>
      /\ log'[f] = <<>>
C3_NoCallWithoutToken ==
  \A f \in AllFlows : \A i \in DOMAIN log[f] :
    (log[f][i].ev = "http" /\ log[f][i].path # PATH_AUTH) => Truthy(log[f][i].bearer)
C3_SettlesMissingAccessToken ==
  \A f \in AllFlows :
    (status[f] = "done" /\ op[f].name = "request" /\ op[f].path # PATH_AUTH
       /\ Cardinality(HttpCalls(f, op[f].path)) = 0) =>
      (result[f].kind = "throw" /\ result[f].err = "MissingAccessToken")
C3_MissingAccessToken ==
  /\ [][C3_BeginWithoutToken]_vars
  /\ [](C3_NoCallWithoutToken /\ C3_SettlesMissingAccessToken)

\* C3 witness: a request to a non-token path has failed with MissingAccessToken
\* while the access token was cleared and the refresh token of an earlier
\* authentication was still stored
C3_Witness ==
  /\ status["main"] = "done"
  /\ op["main"].name = "request" /\ op["main"].path = PATH_API
  /\ result["main"].err = "MissingAccessToken"
  /\ accessToken = NULL
  /\ refreshToken = "refB"
  /\ log["main"] = <<>>

-----------------------------------------------------------------------------
(* Properties of the token store *)

HasHttpCall(lg) == \E i \in DOMAIN lg : lg[i].ev = "http"

\* C4: connect(accessToken, refreshToken, expiresAt) with a non-empty accessToken
\* and expiresAt later than the clock stores accessToken and expiresAt, stores
\* refreshToken only when one is given, and issues no HTTP call.
C4_AdoptStep ==
  \A f \in AllFlows :
    (Begins(f, "connect") /\ Truthy(op'[f].accessToken)
       /\ op'[f].expiresInTimestamp > now) =>
      /\ accessToken' = op'[f].accessToken
      /\ expiresInTimestamp' = op'[f].expiresInTimestamp
      /\ refreshToken' = (IF Truthy(op'[f].refreshToken) THEN op'[f].refreshToken
                          ELSE refreshToken)
      /\ stack'[f] = <<>>
      /\ comp'[f].kind = "return"
      /\ ~HasHttpCall(log'[f])
C4_AdoptValidToken == [][C4_AdoptStep]_vars

\* C4 witness: a valid token was adopted without a refresh token argument, and
\* the refresh token of an earlier authentication is still stored
C4_Witness ==
  /\ status["main"] = "done"
  /\ op["main"].name = "connect"
  /\ op["main"].accessToken = "tokA" /\ op["main"].refreshToken = NULL
  /\ result["main"].kind = "return"
  /\ log["main"] = <<ConnectEvent>>
  /\ accessToken = "tokA"
  /\ refreshToken = "refB"

\* C5: a connect whose access token is not adopted issues exactly one
\* token-endpoint request, with grant type refresh_token if and only if the
\* refreshToken argument is non-empty, otherwise password.
C5_OneTokenRequestByArgument ==
  \A f \in AllFlows :
    (op[f].name = "connect" /\ status[f] \in {"running", "done"}
       /\ HasHttpCall(log[f])) =>
      /\ Cardinality(HttpCalls(f, PATH_AUTH)) = 1
      /\ \A i \in HttpCalls(f, PATH_AUTH) :
           log[f][i].grant_type = (IF Truthy(op[f].refreshToken) THEN "refresh_token"
                                   ELSE "password")

\* an authentication response with non-empty tokens and a strictly positive expires_in
StrictlyPositiveAuthentication(body) ==
  /\ Truthy(body.access_token)
  /\ Truthy(body.refresh_token)
  /\ body.has_expires_in /\ body.expires_in > 0

\* the step hands the body of a token-endpoint answer to setToken in flow f
SetsToken(f) ==
  /\ Resuming(f, {"authenticateByRefreshToken", "authenticateByClientCredentials"},
              "request")
  /\ comp[f].kind = "return"
  /\ stack'[f] # stack[f]

\* C6: an authentication response is accepted only if it has a non-empty access
\* token, a non-empty refresh token and a strictly positive expires_in; every
\* other response fails with InvalidToken.
C6_AcceptStep ==
  \A f \in AllFlows :
    SetsToken(f) =>
      IF StrictlyPositiveAuthentication(comp[f].body)
      THEN comp'[f].kind = "return"
      ELSE comp'[f].kind = "throw" /\ comp'[f].err = "InvalidToken"
C6_AcceptedOnlyIfPositive == [][C6_AcceptStep]_vars

\* C7: after a successful authentication the stored tokens are those of the
\* response, the expiry is the clock's whole seconds plus expires_in, and the
\* token is valid: non-empty and expiring later than the clock.
C7_StoreStep ==
  \A f \in AllFlows :
    (SetsToken(f) /\ comp'[f].kind = "return") =>
      /\ accessToken' = comp[f].body.access_token
      /\ refreshToken' = comp[f].body.refresh_token
      /\ expiresInTimestamp' =
           FloorSeconds(now) + comp[f].body.expires_in * TicksPerSecond
      /\ Truthy(accessToken')
      /\ expiresInTimestamp' > now
C7_StoredTokenIsValid == [][C7_StoreStep]_vars

-----------------------------------------------------------------------------
(* Properties of the constructor *)

\* the step is a construction: no call runs before or after it and the clock stands
ConstructStep ==
  /\ \A f \in AllFlows : status[f] # "running"
  /\ \A f \in AllFlows : status'[f] # "running"
  /\ now' = now

\* C8: construction fails with the client-credential ConfigurationError whenever
\* clientId or clientSecret is missing, with the username/password
\* ConfigurationError whenever only username or password is missing, and
\* otherwise succeeds with an empty token state and no timer.
C8_Outcome ==
  ctor.state # "none" =>
    LET missingClient == ~Truthy(ctor.clientId) \/ ~Truthy(ctor.clientSecret)
        missingUser == ~Truthy(ctor.username) \/ ~Truthy(ctor.password)
    IN /\ missingClient =>
            (ctor.state = "failed" /\ ctor.err = "ConfigurationError:client")
       /\ (~missingClient /\ missingUser) =>
            (ctor.state = "failed" /\ ctor.err = "ConfigurationError:credentials")
       /\ (~missingClient /\ ~missingUser) =>
            (ctor.state = "constructed" /\ ctor.err = "")
C8_EmptyStep ==
  (ConstructStep /\ ctor'.state = "constructed") =>
    /\ accessToken' = NULL
    /\ refreshToken' = NULL
    /\ expiresInTimestamp' = 0
    /\ intervalId' = NULL
C8_Constructor == [](C8_Outcome) /\ [][C8_EmptyStep]_vars

\* C8 witness: a client constructed anew after an authentication had stored tokens
C8_Witness ==
  /\ ctor.state = "constructed"
  /\ status["main"] = "idle"
  /\ op["main"].name = "authenticateByClientCredentials"
  /\ result["main"].kind = "return"
  /\ accessToken = NULL /\ refreshToken = NULL /\ expiresInTimestamp = 0

-----------------------------------------------------------------------------
(* Properties of processMeasure *)

\* the rename table of the telemetry normalizer as documented: source -> destination
RenameTable ==
  [Temperature |-> "temperature", temp_trend |-> "temptrend", Pressure |-> "pressure",
   AbsolutePressure |-> "pressureabs", pressure_trend |-> "pressuretrend",
   Humidity |-> "humidity", CO2 |-> "co2", Noise |-> "noise", Rain |-> "rain",
   sum_rain_1 |-> "sumrain1", sum_rain_24 |-> "sumrain24",
   WindStrength |-> "windstrength", WindAngle |-> "windangle",
   GustStrength |-> "guststrength", GustAngle |-> "gustangle",
   health_idx |-> "healthidx", min_temp |-> "mintemp", max_temp |-> "maxtemp",
   date_min_temp |-> "mintemputc", date_max_temp |-> "maxtemputc",
   max_wind_str |-> "windstrenghtmax", max_wind_angle |-> "windanglemax",
   date_max_wind_str |-> "windmaxutc", time_utc |-> "timeutc"]

\* C9: the record processMeasure returns has exactly the renamed keys of the
\* rename-table keys present in the raw measurement, each with the source value.
C9_RenamedPresentKeys ==
  data.computed =>
    LET present == DOMAIN measure \cap DOMAIN RenameTable
    IN /\ DOMAIN data.record = {RenameTable[k] : k \in present}
       /\ \A k \in present : data.record[RenameTable[k]] = measure[k]

\* C10: a table field is copied whenever its source key is present, a present 0
\* or false included, and an absent source key yields no output key.
C10_FalsyValuesCopied ==
  data.computed =>
    \A k \in DOMAIN RenameTable :
      IF k \in DOMAIN measure
      THEN ~ValueTruthy(measure[k]) =>
             (/\ RenameTable[k] \in DOMAIN data.record
              /\ data.record[RenameTable[k]] = measure[k])
      ELSE RenameTable[k] \notin DOMAIN data.record

\* C11: every key of the record processMeasure returns is the destination of a
\* rename-table key present in the raw measurement; a source key outside the
\* table (the lowercase alias co2 without CO2) produces no output key.
C11_OnlyTableDestinations ==
  data.computed =>
    \A d \in DOMAIN data.record :
      \E k \in DOMAIN RenameTable \cap DOMAIN measure : RenameTable[k] = d

\* the alias co2 was given without CO2, next to a table key, and only the latter is copied
C11_Witness ==
  /\ data.computed
  /\ DOMAIN measure = {"co2", "Temperature"}
  /\ DOMAIN data.record = {"temperature"}

-----------------------------------------------------------------------------
(* Properties of processStation and processAircare *)

\* flow f has finished a call of the method named name
Finished(f, name) == status[f] = "done" /\ op[f].name = name

\* the frame carries exactly these identity and status values
HasFields(frame, fields) ==
  \A k \in DOMAIN fields : k \in DOMAIN frame /\ frame[k] = fields[k]

\* C12: processStation on a station whose modules list is empty or absent emits
\* exactly one frame, the station's own, and logs exactly one warning that
\* names the station.
C12_NoModulesOneFrameOneWarning ==
  \A f \in AllFlows :
    (Finished(f, "processStation") /\ isEmpty(device.modules)) =>
      /\ Len(frames) = 1
      /\ HasFields(frames[1], "id" :> Str(device.id))
      /\ warnings = <<device.station_name>>

\* the identity and status fields of the station's own frame
StationFields(station) ==
  ("id" :> Str(station.id)) @@ ("name" :> Str(station.station_name))
  @@ ("type" :> Str(station.type)) @@ ("home" :> Str(station.home_name))
  @@ ("online" :> online(station.reachable)) @@ ("wifistatus" :> station.wifi_status)

\* the identity and status fields of a module's frame
ModuleFields(station, module) ==
  ("id" :> Str(module.id)) @@ ("name" :> Str(module.module_name))
  @@ ("type" :> Str(module.type)) @@ ("home" :> Str(station.home_name))
  @@ ("online" :> online(module.reachable)) @@ ("rfstatus" :> module.rf_status)
  @@ ("battery" :> module.battery_percent)

\* C13: processStation on a station with n >= 1 modules emits n + 1 frames:
\* first the station's (id, name, type, home, online, wifistatus, no rfstatus,
\* no battery), then one per module in list order (id, name, type, the
\* station's home, online, rfstatus, battery, no wifistatus).
C13_StationThenModulesInOrder ==
  \A f \in AllFlows :
    (Finished(f, "processStation") /\ ~isEmpty(device.modules)) =>
      LET list == device.modules.list
      IN /\ Len(frames) = Len(list) + 1
         /\ HasFields(frames[1], StationFields(device))
         /\ DOMAIN frames[1] \cap {"rfstatus", "battery"} = {}
         /\ \A i \in DOMAIN list :
              /\ HasFields(frames[i + 1], ModuleFields(device, list[i]))
              /\ "wifistatus" \notin DOMAIN frames[i + 1]

\* the raw measurement normalized by the documented rename table
Normalized(ms) ==
  LET present == DOMAIN ms \cap DOMAIN RenameTable
  IN [d \in {RenameTable[k] : k \in present} |->
        ms[CHOOSE k \in present : RenameTable[k] = d]]

\* the identity and status fields of an air-quality frame
AircareFields(aircare) ==
  ("id" :> Str(aircare.id)) @@ ("name" :> Str(aircare.station_name))
  @@ ("type" :> Str(aircare.type)) @@ ("module" :> Str(aircare.module_name))
  @@ ("online" :> online(aircare.reachable)) @@ ("wifistatus" :> aircare.wifi_status)

\* C14: processAircare emits exactly one frame: the normalized dashboard_data
\* fields plus id, name, type, module, online and wifistatus, and no home,
\* rfstatus or battery key.
C14_OneAircareFrame ==
  \A f \in AllFlows :
    Finished(f, "processAircare") =>
      /\ Len(frames) = 1
      /\ frames[1] = AircareFields(device) @@ Normalized(device.dashboard_data.fields)
      /\ DOMAIN frames[1] \cap {"home", "rfstatus", "battery"} = {}

-----------------------------------------------------------------------------
(* Properties of the failures of request *)

\* the step delivers a rejection of axios to the request on top of flow f
Rejects(f) ==
  /\ AtAxios(f)
  /\ Len(log'[f]) = Len(log[f]) + 1
  /\ log'[f][Len(log'[f])].ev \in {"expired", "error"}
  /\ response'.seen

\* the rejection goes to the expired-token retry
TakesRetryPath(f, r) == ~Top(Machine(f)).isRetry /\ IsExpiredToken(r)

\* the failure the documented priority order selects: its text and its status
SelectedFailure(r) ==
  IF r.error_description THEN <<"error_description", r.status>>
  ELSE IF r.error = "object" /\ r.message THEN <<"error.message", r.status>>
  ELSE IF r.error # "absent" THEN <<"json(error)", r.status>>
  ELSE <<"transport", 0>>

C15_FailureStep ==
  \A f \in AllFlows :
    (/\ Rejects(f)
     /\ response'.r.status # 0 /\ response'.r.hasData
     /\ ~TakesRetryPath(f, response'.r)) =>
      /\ comp'[f].kind = "throw"
      /\ comp'[f].err = "RequestFailed"
      /\ <<comp'[f].msg, comp'[f].status>> = SelectedFailure(response'.r)
      /\ stack'[f] = SubSeq(stack[f], 1, Len(stack[f]) - 1)
      /\ log'[f] = Append(log[f], log'[f][Len(log'[f])])

\* C15: an error response with a body that the expired-token retry does not
\* handle makes request fail at once with one RequestFailed whose text is
\* error_description if present, else error.message, else the JSON text of
\* error, each with the status, else the transport message without status.
C15_FailurePriority == [][C15_FailureStep]_vars

\* a rejection carrying error_description and error.message was reported by its
\* error_description
C15_Witness ==
  /\ response.seen
  /\ response.r.error_description /\ response.r.message
  /\ \E f \in AllFlows :
       /\ comp[f].kind = "throw" /\ comp[f].err = "RequestFailed"
       /\ comp[f].msg = "error_description" /\ comp[f].status = response.r.status
       /\ log[f][Len(log[f])].ev = "error"

C16_TransportStep ==
  \A f \in AllFlows :
    (Rejects(f) /\ ~response'.r.hasData) =>
      /\ comp'[f].kind = "throw"
      /\ comp'[f].err = "RequestFailed"
      /\ comp'[f].msg = "transport" /\ comp'[f].status = 0
      /\ stack'[f] = SubSeq(stack[f], 1, Len(stack[f]) - 1)
      /\ log'[f] = Append(log[f], log'[f][Len(log'[f])])
      /\ UNCHANGED clientVars
      /\ (Len(stack[f]) = 1 /\ Cardinality(Responses(f, Top(Machine(f)).path)) = 0) =>
            /\ Cardinality(HttpCalls(f, Top(Machine(f)).path)) = 1
            /\ Events(f, "connect") = {}

\* C16: a rejection without a response body makes request fail at once with the
\* transport message and no status: a top-level request has made one HTTP
\* attempt, nothing re-authenticates and the token state is unchanged.
C16_TransportFailure == [][C16_TransportStep]_vars

\* a top-level data request failed on its first attempt for a transport reason
C16_Witness ==
  /\ response.seen /\ response.r.status = 0
  /\ \E f \in AllFlows :
       /\ status[f] = "done" /\ op[f].name = "request" /\ op[f].path = PATH_API
       /\ result[f].kind = "throw" /\ result[f].msg = "transport"
       /\ Len(log[f]) = 2
       /\ accessToken = "tokA"

-----------------------------------------------------------------------------
(* Properties of the argument checks *)

C17_MissingStep ==
  \A f \in AllFlows :
    (Begins(f, "authenticateByRefreshToken") /\ ~Truthy(op'[f].refreshToken)) =>
      /\ stack'[f] = <<>>
      /\ comp'[f].kind = "throw" /\ comp'[f].err = "MissingRefreshToken"
      /\ log'[f] = <<>>
      /\ UNCHANGED clientVars

\* C17: authenticateByRefreshToken called with no or an empty refresh token
\* fails with MissingRefreshToken, makes no HTTP call and leaves the token
\* state unchanged.
C17_MissingRefreshToken == [][C17_MissingStep]_vars

\* authenticateByRefreshToken('') failed on a client that holds a refresh token
C17_Witness ==
  \E f \in AllFlows :
    /\ status[f] = "done" /\ op[f].name = "authenticateByRefreshToken"
    /\ op[f].refreshToken = ""
    /\ result[f].kind = "throw" /\ result[f].err = "MissingRefreshToken"
    /\ log[f] = <<>>
    /\ accessToken = "tokB" /\ refreshToken = "refB"

\* the step settles the call it begins in flow f with err, before any HTTP call
FailsAtOnce(f, err) ==
  /\ stack'[f] = <<>>
  /\ comp'[f].kind = "throw" /\ comp'[f].err = err
  /\ log'[f] = <<>>
  /\ UNCHANGED clientVars

C18_CheckStep ==
  \A f \in AllFlows :
    /\ (Begins(f, "getHomeStatus") /\ ~Truthy(op'[f].args[1])) =>
         FailsAtOnce(f, "MissingHomeId")
    /\ (Begins(f, "getMeasure") /\ \E i \in 1..3 : ~Truthy(op'[f].args[i])) =>
         FailsAtOnce(f, "MissingMeasureParams")

\* C18: getHomeStatus without homeId fails with MissingHomeId and getMeasure
\* without deviceId, scale or type fails with MissingMeasureParams, before any
\* HTTP call and whether or not an access token is stored.
C18_ArgumentCheckFirst == [][C18_CheckStep]_vars

\* getHomeStatus() failed with MissingHomeId on a client without access token
C18_Witness ==
  \E f \in AllFlows :
    /\ status[f] = "done" /\ op[f].name = "getHomeStatus" /\ op[f].args = <<NULL>>
    /\ result[f].kind = "throw" /\ result[f].err = "MissingHomeId"
    /\ log[f] = <<>>
    /\ accessToken = NULL

-----------------------------------------------------------------------------
(* Properties of polling *)

\* the devices axios resolved with for path in the current call of flow f
Fetched(f, path) ==
  LET oks == {i \in DOMAIN log[f] : log[f][i].ev = "ok" /\ log[f][i].path = path}
  IN log[f][CHOOSE i \in oks : TRUE].devices
FetchSucceeded(f, path) ==
  \E i \in DOMAIN log[f] : log[f][i].ev = "ok" /\ log[f][i].path = path

\* the modules of a station as a list, [] when absent
ModulesOf(station) == IF station.modules.defined THEN station.modules.list ELSE <<>>

\* ids of the frames due for a list of stations: each station, then its modules
RECURSIVE StationIdsDue(_)
StationIdsDue(list) ==
  IF list = <<>> THEN <<>>
  ELSE <<list[1].id>> \o [i \in DOMAIN ModulesOf(list[1]) |-> ModulesOf(list[1])[i].id]
       \o StationIdsDue(Tail(list))

\* ids of the frames due for a list of air-quality devices
AircareIdsDue(list) == [i \in DOMAIN list |-> list[i].id]

\* C19: a pollData whose two fetches succeed emits one frame per station, per
\* module of each station and per air-quality device, stations and modules
\* first, in the order of the fetched lists.
C19_OneFramePerDeviceInOrder ==
  \A f \in AllFlows :
    (/\ Finished(f, "pollData")
     /\ FetchSucceeded(f, PATH_API) /\ FetchSucceeded(f, PATH_HOMECOACH)) =>
      [i \in DOMAIN frames |-> frames[i]["id"]] =
        [i \in DOMAIN (StationIdsDue(Fetched(f, PATH_API))
                        \o AircareIdsDue(Fetched(f, PATH_HOMECOACH))) |->
           Str((StationIdsDue(Fetched(f, PATH_API))
                \o AircareIdsDue(Fetched(f, PATH_HOMECOACH)))[i])]

\* positions of the log of flow f
FirstHttp(f) == CHOOSE i \in Events(f, "http") : \A j \in Events(f, "http") : i <= j
FirstCall(f, path) == CHOOSE i \in HttpCalls(f, path) : \A j \in HttpCalls(f, path) : i <= j

\* startPolling has reached its first HTTP call: the password grant
C20_PasswordGrantFirst ==
  \A f \in AllFlows :
    (op[f].name = "startPolling" /\ Events(f, "http") # {}) =>
      /\ log[f][FirstHttp(f)].path = PATH_AUTH
      /\ log[f][FirstHttp(f)].grant_type = "password"

\* the token endpoint answered, then pollData fetched the stations, then the
\* air-quality devices, in the current call of flow f
C20_PolledAfterAuthentication(f) ==
  /\ FetchSucceeded(f, PATH_API) /\ FetchSucceeded(f, PATH_HOMECOACH)
  /\ \E a \in DOMAIN log[f] :
       /\ log[f][a].ev = "ok" /\ log[f][a].path = PATH_AUTH
       /\ a < FirstCall(f, PATH_API)
  /\ FirstCall(f, PATH_API) < FirstCall(f, PATH_HOMECOACH)

\* the timer is registered by the step that resumes startPolling after a
\* pollData that returned, and a failure of connect or pollData is passed on
C20_RegistrationStep ==
  \A f \in AllFlows :
    /\ (registered' # registered \/ intervalId' # intervalId) =>
         /\ Resuming(f, {"startPolling"}, "pollData")
         /\ comp[f].kind = "return"
         /\ C20_PolledAfterAuthentication(f)
         /\ stack'[f] = <<>> /\ comp'[f].kind = "return"
         /\ intervalId' = "interval"
         /\ registered' = [delay |-> PollDelay, signals |-> PollSignals]
    /\ (Resuming(f, {"startPolling"}, Top(Machine(f)).pc) /\ comp[f].kind = "throw") =>
         /\ stack'[f] = <<>> /\ comp'[f] = comp[f]
         /\ registered' = NoRegistration /\ intervalId' = NULL
    /\ (Finished(f, "startPolling") /\ result[f].kind = "throw") =>
         registered = NoRegistration /\ intervalId = NULL

\* C20: startPolling authenticates by the password grant first, even when a
\* valid token is held, then runs one complete pollData, and only then
\* registers the 60-second timer and the signal handlers; when authentication
\* or the first poll fails it fails with that error and registers nothing.
C20_StartPollingOrder ==
  /\ []C20_PasswordGrantFirst
  /\ [][C20_RegistrationStep]_vars

\* startPolling returned and registered the timer after a poll that emitted a frame
C20_Witness ==
  \E f \in AllFlows :
    /\ Finished(f, "startPolling") /\ result[f].kind = "return"
    /\ registered.delay = PollDelay
    /\ Len(frames) >= 1

-----------------------------------------------------------------------------
(* The timer and the signals *)

\* C21: once a SIGTERM or SIGINT was delivered after startPolling was
\* invoked, the initial connect and the initial poll included, no scheduled
\* pollData tick starts afterwards.
C21_NoTickAfterSignal ==
  [][\A f \in TickFlows : Begins(f, "pollData") => process.delivered = {}]_vars

\* the promise of a tick of flow f is rejected in this step
TickFails(f) ==
  /\ status[f] = "running" /\ stack[f] = <<>> /\ comp[f].kind = "throw"
  /\ status'[f] # "running"

\* C22: a scheduled pollData tick that fails does not end polling: the
\* process keeps running and the timer stays set for the next tick.
C22_FailedTickKeepsRunning ==
  [][\A f \in TickFlows :
       TickFails(f) => ~process'.exited /\ (TimerActive => TimerActive')]_vars

\* a pollData of flow f, scheduled or initial, has started and not finished
PollInProgress(f) ==
  /\ status[f] = "running"
  /\ \E i \in DOMAIN stack[f] : stack[f][i].fn = "pollData"

\* C23: at most one pollData invocation is in progress at any time.
C23_OnePollAtATime ==
  Cardinality({f \in TimerFlows : PollInProgress(f)}) <= 1

-----------------------------------------------------------------------------
(* The expired-token retry of request *)

\* the step delivers an expired-token response to a request of flow f that
\* was issued with isRetry = false
DetectsExpiredToken(f) ==
  /\ AtAxios(f)
  /\ ~Top(Machine(f)).isRetry
  /\ Len(log'[f]) > Len(log[f])
  /\ log'[f][Len(log[f]) + 1].ev = "expired"

\* the token request connect(null, refreshToken, expiresInTimestamp) issues
\* for a stored refresh token rt
GrantFor(rt) ==
  IF Truthy(rt) THEN [grant_type |-> "refresh_token", refresh_token |-> rt]
  ELSE [grant_type |-> "password", refresh_token |-> NULL]

C24_ExpiredStep ==
  \A f \in AllFlows :
    DetectsExpiredToken(f) =>
      /\ accessToken' = NULL
      /\ refreshToken' = refreshToken
      /\ expiresInTimestamp' = expiresInTimestamp
      /\ log'[f] = log[f] \o <<ResponseEvent("expired", Top(Machine(f)).path),
                               ConnectEvent,
                               HttpEvent(PATH_AUTH, GrantFor(refreshToken), NULL)>>
      /\ Len(stack'[f]) = Len(stack[f]) + 3
      /\ stack'[f][Len(stack[f])].pc = "connect"
      /\ stack'[f][Len(stack[f]) + 1].fn = "connect"
      /\ stack'[f][Len(stack[f]) + 2].fn =
           IF Truthy(refreshToken) THEN "authenticateByRefreshToken"
           ELSE "authenticateByClientCredentials"
      /\ comp'[f].kind = "none"

\* C24: on an expired-token response to a request with isRetry = false,
\* request clears the access token, leaves the refresh token and the expiry
\* as they are, and calls connect, which issues the token request with the
\* refresh-token grant when a refresh token is stored and with the password
\* grant when none is.
C24_ClearsAndReauthenticates == [][C24_ExpiredStep]_vars

\* a request holding a token and a refresh token met the expired-token
\* response and waits for the answer to its refresh-token grant
C24_Witness ==
  \E f \in AllFlows :
    /\ FirstAttemptExpired(f)
    /\ Len(log[f]) = 4
    /\ log[f][4] = HttpEvent(PATH_AUTH, GrantFor("refA"), NULL)
    /\ accessToken = NULL /\ refreshToken = "refA"
    /\ AtAxios(f)

\* the positions of the log of flow f that the step has written
Issued(f) ==
  IF status[f] # "running" THEN DOMAIN log'[f]
  ELSE {i \in DOMAIN log'[f] : i > Len(log[f])}

\* every HTTP call the step issues carries the stored access token, and none
\* on the token endpoint
C25_IssueStep ==
  \A f \in AllFlows : \A i \in Issued(f) :
    log'[f][i].ev = "http" =>
      IF log'[f][i].path = PATH_AUTH THEN log'[f][i].bearer = NULL
      ELSE Truthy(accessToken') /\ log'[f][i].bearer = accessToken'

\* the stored access token changes only when request clears it and when an
\* authentication stores the token of the answer it got
C25_StoreStep ==
  accessToken' # accessToken =>
    \E f \in AllFlows :
      \/ DetectsExpiredToken(f) /\ accessToken' = NULL
      \/ /\ Resuming(f, {"authenticateByRefreshToken",
                          "authenticateByClientCredentials"}, "request")
         /\ comp[f].kind = "return"
         /\ accessToken' = comp[f].body.access_token

\* C25: every HTTP call to a path other than the token endpoint carries the
\* access token stored when the call is issued, calls to the token endpoint
\* carry no Authorization header, and the retry after a re-authentication
\* carries the token that re-authentication stored.
C25_BearerIsStoredToken == [][C25_IssueStep /\ C25_StoreStep]_vars

\* a request sent with tokA met the expired-token response, and its retry was
\* sent with the token the token endpoint answered
C25_Witness ==
  \E f \in AllFlows :
    /\ FirstAttemptExpired(f)
    /\ log[f][1].bearer = "tokA"
    /\ \E i \in HttpCalls(f, op[f].path) :
         i > 2 /\ log[f][i].bearer = "tokB" /\ accessToken = "tokB"

\* the expired-token signature as documented: 401 or 403 with error code 3
ExpiredSignature(r) == r.status \in {401, 403} /\ r.error = "object" /\ r.code = 3

\* the step delivers the rejection response'.r to the request on top of flow f
Rejected(f) ==
  /\ AtAxios(f)
  /\ response'.seen
  /\ Len(log'[f]) > Len(log[f])
  /\ log'[f][Len(log[f]) + 1].ev \in {"expired", "error"}

C26_OtherErrorStep ==
  \A f \in AllFlows :
    (Rejected(f) /\ (Top(Machine(f)).isRetry \/ ~ExpiredSignature(response'.r))) =>
      /\ comp'[f].kind = "throw" /\ comp'[f].err = "RequestFailed"
      /\ stack'[f] = SubSeq(stack[f], 1, Len(stack[f]) - 1)
      /\ Len(log'[f]) = Len(log[f]) + 1
      /\ UNCHANGED clientVars
      /\ Len(stack[f]) = 1 =>
            /\ Cardinality(Events(f, "http")) = 1
            /\ Events(f, "connect") = {}

\* C26: an error response without the expired-token signature, or to a
\* request issued with isRetry = true, is not retried: request fails in the
\* step that receives it, issues no further HTTP call, does not call connect
\* and leaves access token, refresh token and expiry unchanged.
C26_NoRetryOfOtherErrors == [][C26_OtherErrorStep]_vars

\* a request holding tokA failed on a 401 with vendor code 1 after one attempt
C26_Witness ==
  /\ response.seen
  /\ response.r.status = 401 /\ response.r.error = "object" /\ response.r.code = 1
  /\ accessToken = "tokA"
  /\ \E f \in AllFlows :
       /\ op[f].name = "request" /\ ~op[f].isRetry /\ op[f].path # PATH_AUTH
       /\ comp[f].kind = "throw" /\ comp[f].err = "RequestFailed"
       /\ stack[f] = <<>>
       /\ Len(log[f]) = 2 /\ log[f][2].ev = "error"

\* the HTTP calls of flow f issued after its first attempt met the
\* expired-token response: token requests, and one retry of the path, which
\* follows an answer of the token endpoint
C27_OnlyReauthAndRetry ==
  \A f \in AllFlows :
    FirstAttemptExpired(f) =>
      /\ \A i \in Events(f, "http") :
           i > 2 => \/ log[f][i].path = PATH_AUTH
                    \/ /\ log[f][i].path = op[f].path
                       /\ \E a \in 3..(i - 1) :
                            log[f][a].ev = "ok" /\ log[f][a].path = PATH_AUTH
      /\ Cardinality(HttpCalls(f, op[f].path)) <= 2

\* request fails with MissingAccessToken only before its first HTTP call
C27_NoMissingTokenMidRetry ==
  \A f \in AllFlows :
    (op[f].name = "request" /\ "MissingAccessToken" \in {comp[f].err, result[f].err})
      => log[f] = <<>>

\* C27: with one request call at a time, between the clearing of the access
\* token and the end of the request that cleared it the only HTTP calls are
\* token requests and the single retry, and nothing fails with
\* MissingAccessToken once a call was issued.
C27_ClearedTokenNotObserved == C27_OnlyReauthAndRetry /\ C27_NoMissingTokenMidRetry

\* a request met the expired-token response, re-authenticated, and its single
\* retry was answered
C27_Witness ==
  \E f \in AllFlows :
    /\ FirstAttemptExpired(f)
    /\ Finished(f, "request") /\ result[f].kind = "return"
    /\ Cardinality(HttpCalls(f, op[f].path)) = 2
    /\ Cardinality(HttpCalls(f, PATH_AUTH)) = 1
    /\ log[f][Len(log[f])].ev = "ok"

-----------------------------------------------------------------------------
(* The failures of pollData *)

\* a failure is delivered to pollData, or to one of its two fetches, in flow f
PollFails(f) ==
  /\ Resuming(f, {"pollData", "getStationsData", "getHomeCoachData"},
              Top(Machine(f)).pc)
  /\ comp[f].kind = "throw"
  /\ \E i \in DOMAIN stack[f] : stack[f][i].fn = "pollData"
  /\ stack'[f] # stack[f]

C28_FailureStep ==
  \A f \in AllFlows :
    PollFails(f) =>
      /\ comp'[f] = comp[f]
      /\ stack'[f] = SubSeq(stack[f], 1, Len(stack[f]) - 1)
      /\ log'[f] = log[f]
      /\ frames' = frames
      /\ (Top(Machine(f)).fn = "pollData" /\ Top(Machine(f)).pc = "stations") =>
            /\ frames = <<>>
            /\ HttpCalls(f, PATH_HOMECOACH) = {}
      /\ (Top(Machine(f)).fn = "pollData" /\ Top(Machine(f)).pc = "aircares") =>
            [i \in DOMAIN frames |-> frames[i]["id"]] =
              [i \in DOMAIN StationIdsDue(Fetched(f, PATH_API)) |->
                 Str(StationIdsDue(Fetched(f, PATH_API))[i])]

\* frames once emitted stay emitted
C28_KeepsFrames ==
  Len(frames') >= Len(frames) /\ SubSeq(frames', 1, Len(frames)) = frames

\* C28: pollData passes every failure on unchanged: a failed stations fetch
\* ends it with no frame and no air-quality fetch, a failed air-quality fetch
\* ends it after the frames of the stations and their modules were emitted,
\* and these are not withdrawn.
C28_ErrorsPassThrough == [][C28_FailureStep /\ C28_KeepsFrames]_vars

\* a pollData that emitted station frames failed on its air-quality fetch
C28_Witness ==
  \E f \in AllFlows :
    /\ Finished(f, "pollData")
    /\ result[f].kind = "throw" /\ result[f].err = "RequestFailed"
    /\ FetchSucceeded(f, PATH_API)
    /\ log[f][Len(log[f])].ev = "error" /\ log[f][Len(log[f])].path = PATH_HOMECOACH
    /\ Len(frames) = 2

-----------------------------------------------------------------------------
(* The online field of the frames *)

\* the reachable flag of what frame i of the processed device stands for: the
\* device itself, then its modules in list order
ReachableOf(i) ==
  IF i = 1 THEN device.reachable ELSE device.modules.list[i - 1].reachable

\* C29: every frame processStation and processAircare emit has an online
\* field, which is 1 when the reachable flag of the device or module is true
\* and 0 when it is false or absent.
C29_OnlineFromReachable ==
  \A i \in DOMAIN frames :
    /\ "online" \in DOMAIN frames[i]
    /\ frames[i]["online"] = Num(IF ReachableOf(i) = "true" THEN 1 ELSE 0)

\* a station without reachable flag was processed with a reachable module and
\* one that is not
C29_Witness ==
  /\ device.kind = "station" /\ device.reachable = NULL
  /\ Len(frames) = 3
  /\ frames[1]["online"] = Num(0)
  /\ ReachableOf(2) = "true" /\ frames[2]["online"] = Num(1)
  /\ ReachableOf(3) = "false" /\ frames[3]["online"] = Num(0)

-----------------------------------------------------------------------------
(* Recovery of polling *)

\* startPolling has succeeded, a tick has cleared the expired access token
\* and ended without a new one: its re-authentication failed
ReauthenticationFailed ==
  /\ intervalId # NULL
  /\ accessToken = NULL
  /\ \A f \in TickFlows : status[f] # "running"

\* C30: polling recovers from a failed re-authentication: once the
\* re-authentication of a tick has failed, the process is running and the
\* server answers every request successfully, a later scheduled tick emits
\* frames again.
C30_PollingRecovers ==
  \A n \in 0..(MaxFrames - 1) :
    (/\ ReauthenticationFailed /\ ~process.exited
     /\ process.server = "good" /\ Len(frames) = n) ~> (Len(frames) > n)

-----------------------------------------------------------------------------
(* The token state after a failed authentication *)

\* C31: a failed authentication attempt (the token request fails, or its
\* answer is an invalid token) leaves access token, refresh token and
\* expiry as they were before authenticateByRefreshToken,
\* authenticateByClientCredentials or connect was called.
C31_FailedAuthenticationKeepsTokens ==
  \A f \in AllFlows :
    (/\ status[f] = "done"
     /\ op[f].name \in {"authenticateByRefreshToken",
                        "authenticateByClientCredentials", "connect"}
     /\ result[f].kind = "throw"
     /\ result[f].err \in {"RequestFailed", "InvalidToken"}) =>
      /\ accessToken = "tokB"
      /\ refreshToken = "refB"
      /\ expiresInTimestamp = TicksPerSecond

-----------------------------------------------------------------------------
(* The failure of the re-authentication *)

\* the connect of the expired-token path of flow f has failed and the request
\* that awaited it resumes
ReauthenticationFails(f) ==
  /\ Resuming(f, {"request"}, "connect")
  /\ comp[f].kind = "throw"
  /\ stack'[f] # stack[f]

C32_FailureStep ==
  \A f \in AllFlows :
    ReauthenticationFails(f) =>
      /\ comp'[f] = comp[f]
      /\ comp[f].err \in {"RequestFailed", "InvalidToken"}
      /\ stack'[f] = SubSeq(stack[f], 1, Len(stack[f]) - 1)
      /\ log'[f] = log[f]
      /\ (Len(stack[f]) = 1 /\ op[f].path # PATH_AUTH) =>
            Cardinality(HttpCalls(f, op[f].path)) = 1

\* no password grant is sent after a refresh-token grant in the same call
C32_NoPasswordAfterRefresh ==
  \A f \in AllFlows :
    \A i \in HttpCalls(f, PATH_AUTH), j \in HttpCalls(f, PATH_AUTH) :
      (i < j /\ log[f][i].grant_type = "refresh_token") =>
        log[f][j].grant_type # "password"

\* C32: when the re-authentication of the expired-token path fails, request
\* fails with the error of the authentication and does not issue the
\* original call again, and a refresh-token grant is not followed by a
\* password grant in the same call.
C32_FailedReauthenticationEndsRequest ==
  []C32_NoPasswordAfterRefresh /\ [][C32_FailureStep]_vars

\* a request met the expired-token response, its refresh-token grant was
\* answered without tokens, and it failed with InvalidToken after one call
\* of its path and one token request
C32_Witness ==
  \E f \in AllFlows :
    /\ FirstAttemptExpired(f)
    /\ Finished(f, "request")
    /\ result[f].kind = "throw" /\ result[f].err = "InvalidToken"
    /\ Cardinality(HttpCalls(f, op[f].path)) = 1
    /\ Cardinality(HttpCalls(f, PATH_AUTH)) = 1
    /\ log[f][4].grant_type = "refresh_token"

-----------------------------------------------------------------------------
(* Overlapping requests *)

\* both flows have a request in flight or finished that was sent with tokA
\* and answered with the expired-token signature
BothExpired ==
  \A f \in TickFlows : FirstAttemptExpired(f) /\ log[f][1].bearer = "tokA"

\* the refresh-token grants flow f has sent in its current call
RefreshGrants(f) ==
  {i \in HttpCalls(f, PATH_AUTH) : log[f][i].grant_type = "refresh_token"}

C33_OneRefreshGrant ==
  BothExpired =>
    Cardinality(RefreshGrants("tick1")) + Cardinality(RefreshGrants("tick2")) <= 1

C33_NoMissingToken ==
  BothExpired =>
    \A f \in TickFlows : "MissingAccessToken" \notin {comp[f].err, result[f].err}

\* C33: when two request calls are in flight at once and both were sent with
\* an access token the server reports as expired, the client sends at most
\* one refresh-token grant for that expiry, and neither call fails with
\* MissingAccessToken.
C33_OneRefreshGrantNoMissingToken == C33_OneRefreshGrant /\ C33_NoMissingToken

-----------------------------------------------------------------------------
(* Devices without dashboard_data *)

\* ids of the frames due for the devices flow f fetched in its current call
FrameIdsDue(f) ==
  StationIdsDue(Fetched(f, PATH_API)) \o AircareIdsDue(Fetched(f, PATH_HOMECOACH))

\* C34: in a pollData whose two fetches succeed, every fetched station,
\* module and air-quality device gets its frame, with its id and online,
\* also when one of them has no dashboard_data, and pollData returns.
C34_FrameWithoutDashboardData ==
  \A f \in AllFlows :
    (/\ Finished(f, "pollData")
     /\ FetchSucceeded(f, PATH_API) /\ FetchSucceeded(f, PATH_HOMECOACH)) =>
      /\ result[f].kind = "return"
      /\ Len(frames) = Len(FrameIdsDue(f))
      /\ \A i \in DOMAIN frames :
           /\ {"id", "online"} \subseteq DOMAIN frames[i]
           /\ frames[i]["id"] = Str(FrameIdsDue(f)[i])

====
